---------------------------- MODULE Spec2Model ----------------------------
(***************************************************************************)
(* Model of the call scheduler of cognite.extractorutils.rest              *)
(* (RestExtractor in extractor.py): the producer thread that pulls pending *)
(* calls from the priority queue (_get_next_call, run.producer_loop), the  *)
(* worker pool that executes them (run.executor_call, _call,               *)
(* _handle_call_response), endpoint admission (_add_endpoint, __enter__),  *)
(* the cancellation token and the wall clock.                              *)
(***************************************************************************)
EXTENDS Integers, Sequences, FiniteSets, TLC

(***************************************************************************)
(* Bounds of the model.                                                    *)
(***************************************************************************)
\* The wall clock runs freely up to MaxTime; later it only advances to fire
\* a timeout the producer is blocked on.
MaxTime == 3
\* Number of pages the paginated test endpoints serve (test_follow_cursor: 3).
ChainLen == 3
\* Interval, in clock units, of the interval endpoints.
Interval == 2
\* Size of the worker pool (config.extractor.request_parallelism).
request_parallelism == 2
\* The wait between two attempts of a call (config.source.retries.delay, with
\* a backoff factor of 1 and no jitter), in clock units.
RetryDelay == 1

(***************************************************************************)
(* Program constants.                                                      *)
(***************************************************************************)
_min_check_interval == 1

\* RetryConfig.number: the tries of one call.
retries_number == 5

(***************************************************************************)
(* Values.                                                                 *)
(***************************************************************************)
None == "None"

\* The keys a query mapping can hold; a key maps to None when it is absent.
QueryKeys == {"cursor", "limit"}

NoQuery == [k \in QueryKeys |-> None]

\* HttpUrl: the path and the query mapping (scheme, host and fragment are the
\* same for every URL of a run and left out).
HttpUrl(p) == [path |-> p, query |-> NoQuery]

NoUrl == [path |-> None, query |-> NoQuery]

\* Python values of endpoint arguments (query values, interval).
PyNone == [t |-> "none", i |-> 0, s |-> ""]

PyInt(n) == [t |-> "int", i |-> n, s |-> ""]

PyStr(x) == [t |-> "str", i |-> 0, s |-> x]

\* HttpCall: endpoint, url, call_when; id is the identity of the object and
\* dyn records whether the call descends from a registration made by a handler.
NoCall == [id |-> 0, ep |-> None, url |-> NoUrl, call_when |-> 0, dyn |-> FALSE]

\* The cursors the test server hands out, page by page.
Cursors == <<"c1", "c2", "c3", "c4", "c5">>

\* The registered endpoints: interval (None or seconds), the query mapping,
\* whether a pagination function is given, the number of pages the server
\* serves for the endpoint, the endpoints the handler registers while it
\* runs, whether the server answers every attempt with an HTTP error, the
\* number of attempts of a call it answers with an HTTP error before it
\* answers 200, and what breaks after the response arrived: the decoding of
\* the body ("decode"), the handler ("handler"), the routing of the
\* handler's output, whose first item is of no kind handle_output knows
\* ("route"), the handler of the second page alone ("page2"), the
\* pagination function ("next_page"), or nothing.
Endpoints ==
  [ once    |-> [interval |-> PyNone, next_page |-> FALSE, pages |-> 1,
                 registers |-> <<>>, fails |-> FALSE, query |-> <<>>,
                 flaky |-> 0, breaks |-> None],
    pages   |-> [interval |-> PyNone, next_page |-> TRUE, pages |-> ChainLen,
                 registers |-> <<>>, fails |-> FALSE,
                 query |-> [limit |-> PyInt(10)],
                 flaky |-> 0, breaks |-> None],
    parent  |-> [interval |-> PyNone, next_page |-> FALSE, pages |-> 1,
                 registers |-> <<"child", "child">>, fails |-> FALSE,
                 query |-> <<>>, flaky |-> 0, breaks |-> None],
    child   |-> [interval |-> PyNone, next_page |-> TRUE, pages |-> 2,
                 registers |-> <<>>, fails |-> FALSE, query |-> <<>>,
                 flaky |-> 0, breaks |-> None],
    poll    |-> [interval |-> PyInt(Interval), next_page |-> TRUE, pages |-> 2,
                 registers |-> <<>>, fails |-> FALSE, query |-> <<>>,
                 flaky |-> 0, breaks |-> None],
    tick    |-> [interval |-> PyInt(Interval), next_page |-> FALSE, pages |-> 1,
                 registers |-> <<>>, fails |-> FALSE, query |-> <<>>,
                 flaky |-> 0, breaks |-> None],
    bad     |-> [interval |-> PyNone, next_page |-> TRUE, pages |-> 2,
                 registers |-> <<>>, fails |-> TRUE, query |-> <<>>,
                 flaky |-> 0, breaks |-> None],
    flaky   |-> [interval |-> PyNone, next_page |-> TRUE, pages |-> 2,
                 registers |-> <<>>, fails |-> FALSE, query |-> <<>>,
                 flaky |-> 2, breaks |-> None],
    garbled |-> [interval |-> PyNone, next_page |-> TRUE, pages |-> 2,
                 registers |-> <<>>, fails |-> FALSE, query |-> <<>>,
                 flaky |-> 0, breaks |-> "decode"],
    crash   |-> [interval |-> PyNone, next_page |-> TRUE, pages |-> 2,
                 registers |-> <<"once">>, fails |-> FALSE, query |-> <<>>,
                 flaky |-> 0, breaks |-> "handler"],
    odd     |-> [interval |-> PyNone, next_page |-> TRUE, pages |-> 2,
                 registers |-> <<>>, fails |-> FALSE, query |-> <<>>,
                 flaky |-> 0, breaks |-> "route"],
    later   |-> [interval |-> PyInt(Interval), next_page |-> TRUE,
                 pages |-> 3, registers |-> <<>>, fails |-> FALSE,
                 query |-> <<>>, flaky |-> 0, breaks |-> "page2"],
    torn    |-> [interval |-> PyNone, next_page |-> TRUE, pages |-> 2,
                 registers |-> <<>>, fails |-> FALSE, query |-> <<>>,
                 flaky |-> 0, breaks |-> "next_page"] ]

EndpointNames == DOMAIN Endpoints

\* The endpoint lists a run is started with.
Scenarios ==
  { <<"pages">>, <<"parent">>, <<"poll", "poll">>, <<"tick">>,
    <<"once", "bad">>, <<"poll", "once">>,
    <<"once", "once", "once">>,
    <<"once">>, <<"flaky">>, <<"garbled", "crash">>, <<"odd", "once">>,
    <<"later">>, <<"torn">> }

\* The configured values of request_parallelism.
Parallelisms == {-1, 0, request_parallelism}

\* Optional[List[Endpoint]]: a list, or None.
SomeList(l) == [isNone |-> FALSE, items |-> l]

NoList == [isNone |-> TRUE, items |-> <<>>]

VARIABLES
  _initial_endpoints,  \* list of endpoints collected before the run, or None
  _call_queue,         \* the PriorityQueue, as the set of calls it holds
  n_executing,         \* the in-flight counter
  cancelation_token,   \* the threading.Event
  now,                 \* time.time()
  runState,            \* "init", "entered", "config_error", "running",
                       \* "returned", "raised"
  pc,                  \* position of the producer thread
  waiting,             \* _get_next_call's local: the held-back call
  next,                \* producer_loop's local: the call to submit
  deadline,            \* end of the producer's current timed wait
  pool,                \* work items submitted to the executor, not started
  running,             \* work items a pool thread is executing
  errors,              \* run's list of (error, call)
  pushed,              \* number of calls put on the queue so far
  finished,            \* ids of the calls whose executor_call has ended
  requests,            \* per endpoint, the URLs requested, in order
  handler_calls,       \* per endpoint, number of handler invocations
  registered,          \* per endpoint, number of registrations by handlers
  next_page_calls,     \* per endpoint, number of pagination-function calls
  routed,              \* per endpoint, number of outputs handed to the sinks
  parallelism,         \* config.extractor.request_parallelism
  run_error,           \* the parts of the RuntimeError run() raised
  scenario,            \* the endpoints registered before the run
  header_sources,      \* prepare_headers: what it reads
  prepared,            \* prepare_headers: the dictionary it returned
  body_template,       \* endpoint.body of the endpoint whose bodies are sent
  it_num,              \* Iterator.num of the counter the template calls
  sent_bodies,         \* the data of the requests sent, attempt by attempt
  payload,             \* _call: what raw_response.json() returned
  response_type,       \* endpoint.response_type of the call
  response,            \* _call: what dacite.from_dict returned
  call_url,            \* HttpCall.url of the call whose query is merged
  endpoint_query,      \* endpoint.query of that call
  merges,              \* number of times the query has been merged
  auth_config,         \* config.source.auth
  authentication       \* the AuthenticationProvider __enter__ constructs

vars == <<_initial_endpoints, _call_queue, n_executing, cancelation_token,
          now, runState, pc, waiting, next, deadline, pool, running, errors,
          pushed, finished, requests, handler_calls, registered,
          next_page_calls, routed, parallelism, run_error, scenario,
          header_sources, prepared, body_template, it_num, sent_bodies,
          payload, response_type, response, call_url, endpoint_query,
          merges, auth_config, authentication>>

prodVars == <<pc, waiting, next, deadline>>
logVars == <<requests, handler_calls, registered, next_page_calls, routed>>
\* What no step of the engine changes: the configuration, and the outcome
\* that only the end of run() sets.
headerVars == <<header_sources, prepared>>
bodyVars == <<body_template, it_num, sent_bodies>>
decodeVars == <<payload, response_type, response>>
queryVars == <<call_url, endpoint_query, merges>>
pureVars == <<headerVars, bodyVars, decodeVars, queryVars>>
otherVars == <<parallelism, run_error, scenario, pureVars, auth_config,
               authentication>>

(***************************************************************************)
(* Pure functions.                                                         *)
(***************************************************************************)
Min(a, b) == IF a <= b THEN a ELSE b

\* _get_initial_url: urljoin(base_url, path); the path names the endpoint.
_get_initial_url(ep) == HttpUrl(ep)

\* Decimal rendering of a number below 100.
Digit == <<"0", "1", "2", "3", "4", "5", "6", "7", "8", "9">>

IntToStr(n) ==
  IF n < 10 THEN Digit[n + 1] ELSE Digit[(n \div 10) + 1] \o Digit[(n % 10) + 1]

\* str(v) of a query value: a number is rendered, a string kept, and a
\* function gives its representation (its name and address, left out here).
str(v) ==
  CASE v.t = "int" -> IntToStr(v.i)
    [] v.t = "str" -> v.s
    [] v.t = "fn" -> "<function>"
    [] OTHER -> "None"

\* The page a URL asks for: the first one without a cursor, else the one
\* after the page that handed the cursor out.
PageOf(url) ==
  IF url.query["cursor"] # None
    THEN 1 + CHOOSE i \in 1..Len(Cursors) : Cursors[i] = url.query["cursor"]
    ELSE 1

\* The server's answer: the cursor field of the decoded response.
ResponseCursor(ep, url) ==
  IF PageOf(url) < Endpoints[ep].pages THEN Cursors[PageOf(url)] ELSE None

\* A pagination function that never follows the cursor.
NextPageNone(ep, url) == NoUrl

\* The limit the pagination function asks for in a follow-up of a URL that
\* carries one.
NextPageLimit == "5"

\* The pagination function of the tests (test_next_page): follow the cursor;
\* a URL that carries a limit is returned with the function's own limit.
NextPage(ep, url) ==
  IF ResponseCursor(ep, url) # None
    THEN [url EXCEPT !.query["cursor"] = ResponseCursor(ep, url),
                     !.query["limit"] = IF @ = None THEN None
                                                    ELSE NextPageLimit]
    ELSE NoUrl

\* A follow-up that is ready at once whatever the endpoint's interval.
FollowUpWhenReady(ep, t) == 0

\* _handle_call_response: the not-before time of a follow-up.
FollowUpWhen(ep, t) ==
  IF Endpoints[ep].interval = PyNone THEN 0 ELSE t + Endpoints[ep].interval.i

\* PriorityQueue.get: an item of least priority.
MinCalls(q) == {c \in q : \A d \in q : c.call_when <= d.call_when}

\* A drain check that looks at the queue alone.
NoneExecutingIgnored(n) == TRUE

\* _get_next_call, line 454, first operand: no call is executing.
NoneExecuting(n) == n = 0

\* _get_next_call, line 456.
to_wait(w, t) == IF w = NoCall THEN _min_check_interval ELSE w.call_when - t

\* A wait without a timeout.
TimedOutNever(t, d) == FALSE

\* Queue.get(timeout) and Event.wait(timeout): the timeout has passed.
TimedOut(t, d) == t >= d

\* A pool without a limit on its threads.
ThreadFreeAlways(n) == TRUE

\* A pool none of whose threads ever takes a work item.
ThreadFreeNever(n) == FALSE


\* ThreadPoolExecutor(max_workers): a work item starts when a thread is free.
ThreadFree(n) == n < parallelism

(***************************************************************************)
(* prepare_headers.                                                        *)
(***************************************************************************)
\* The header keys of the model.
HeaderKeys == {"Authorization", "Content-Type", "Accept"}

\* A zero-argument callable that returns the string x.
PyFn(x) == [t |-> "fn", i |-> 0, s |-> x]

\* _get_or_call: a callable is called, anything else is returned as it is.
_get_or_call(item) == IF item.t = "fn" THEN PyStr(item.s) ELSE item

\* The dictionaries with keys among HeaderKeys and values from the set V.
Dicts(V) == UNION {[K -> V] : K \in SUBSET HeaderKeys}

EmptyDict == <<>>

\* Optional[Dict[str, str]] of the configuration: None, or a dictionary.
NoDict == [isNone |-> TRUE, d |-> EmptyDict]

SomeDict(d) == [isNone |-> FALSE, d |-> d]

\* Truth value of an Optional[Dict]: None and the empty dictionary are false.
Truthy(od) == ~od.isNone /\ DOMAIN od.d # {}

\* A merge that leaves alone the keys the URL already carries.
add_to_query_keeping(url, query) ==
  IF query.isNone THEN url
  ELSE [url EXCEPT !.query =
          [k \in QueryKeys |->
             IF k \in DOMAIN query.d /\ url.query[k] = None
               THEN str(query.d[k]) ELSE url.query[k]]]

\* A merge that replaces the query of the URL by the added mapping.
add_to_query_replacing(url, query) ==
  IF query.isNone THEN url
  ELSE [url EXCEPT !.query =
          [k \in QueryKeys |->
             IF k \in DOMAIN query.d THEN str(query.d[k]) ELSE None]]

\* HttpUrl.add_to_query, for an Optional[Dict]: nothing is done for None,
\* else every key of the added mapping is set to str(value).
add_to_query(url, query) ==
  IF query.isNone THEN url
  ELSE [url EXCEPT !.query =
          [k \in QueryKeys |->
             IF k \in DOMAIN query.d THEN str(query.d[k]) ELSE url.query[k]]]

\* What prepare_headers reads: self.headers, endpoint.headers,
\* config.source.headers, authentication.is_configured and whether
\* endpoint.body is not None.
HeaderSources ==
  [headers : Dicts({PyStr("global"), PyFn("global-fn")}),
   endpoint : Dicts({PyStr("endpoint"), PyFn("endpoint-fn")}),
   config : {NoDict} \cup {SomeDict(d) : d \in Dicts({PyStr("config")})},
   auth : BOOLEAN,
   body : BOOLEAN]

NoSources ==
  [headers |-> EmptyDict, endpoint |-> EmptyDict, config |-> NoDict,
   auth |-> FALSE, body |-> FALSE]

\* prepare_headers has not returned.
NotPrepared == [done |-> FALSE, d |-> EmptyDict]

\* AuthenticationProvider.auth_header.
auth_header == PyStr("Basic dXNlcjpwdw==")

\* {k: _get_or_call(v) for k, v in d.items()}
Called(d) == [k \in DOMAIN d |-> _get_or_call(d[k])]

\* for k, v in e.items(): d[k] = v
Update(d, e) ==
  [k \in DOMAIN d \cup DOMAIN e |-> IF k \in DOMAIN e THEN e[k] ELSE d[k]]

\* d[k] = v
Set(d, k, v) == [j \in DOMAIN d \cup {k} |-> IF j = k THEN v ELSE d[j]]

\* A merge in which the endpoint's headers are applied after the
\* configuration's.
prepare_headers_endpoint_last(src) ==
  LET h1 == Called(src.headers)
      h2 == IF Truthy(src.config) THEN Update(h1, src.config.d) ELSE h1
      h3 == Update(h2, Called(src.endpoint))
      h4 == IF src.auth THEN Set(h3, "Authorization", auth_header) ELSE h3
  IN IF src.body THEN Set(h4, "Content-Type", PyStr("application/json"))
                 ELSE h4

\* prepare_headers, lines 429-444.
prepare_headers(src) ==
  LET h1 == Called(src.headers)
      h2 == Update(h1, Called(src.endpoint))
      h3 == IF Truthy(src.config) THEN Update(h2, src.config.d) ELSE h2
      h4 == IF src.auth THEN Set(h3, "Authorization", auth_header) ELSE h3
  IN IF src.body THEN Set(h4, "Content-Type", PyStr("application/json"))
                 ELSE h4

(***************************************************************************)
(* _format_body. A body template is a tree: a literal, the counter `it` of *)
(* the tests (an Iterator instance), a callable returning a template, a    *)
(* list, or a dictionary given as its key/value pairs in order.            *)
(***************************************************************************)
\* Number of requests whose bodies are followed.
MaxSends == 4

Lit(v) == [t |-> "lit", v |-> v]

It == [t |-> "it"]

Fn(ret) == [t |-> "fn", ret |-> ret]

List(items) == [t |-> "list", items |-> items]

Dict(items) == [t |-> "dict", items |-> items]

Pair(k, v) == [k |-> k, v |-> v]

\* endpoint.body is None.
NoBody == [t |-> "none"]

\* The templates of the tests of _format_body, with the counter in the
\* places the tests have a producer.
Templates ==
  { Dict(<<Pair("key", Fn(List(<<It, It, It, It>>)))>>),
    Dict(<<Pair("key1", Lit(PyStr("val"))), Pair("key3", Lit(PyNone))>>),
    Dict(<<Pair("key1", Lit(PyStr("val"))),
           Pair("key2", Dict(<<Pair("subkey", It)>>)),
           Pair("key3", List(<<It, Lit(PyStr("item2")), It>>))>>),
    Dict(<<Pair("key1", It)>>),
    Dict(<<Pair("key1", Fn(Dict(<<Pair("subkey", It)>>)))>>),
    Dict(<<Pair("key", Fn(List(<<Lit(PyStr("item1")), It>>)))>>),
    Fn(Dict(<<Pair("n", It), Pair("m", It)>>)),
    List(<<It, Fn(List(<<It>>))>>),
    Dict(<<Pair("key1", Fn(Lit(PyStr("val"))))>>),
    Dict(<<Pair("key1", Lit(PyStr("val"))),
           Pair("key2", Dict(<<Pair("subkey", Lit(PyStr("subval")))>>)),
           Pair("key3", List(<<Lit(PyStr("item1")), Lit(PyStr("item2"))>>))>>),
    Dict(<<>>),
    Fn(Dict(<<>>)),
    NoBody }

RECURSIVE recursive_get_or_call(_, _)
RECURSIVE ResolveItems(_, _)
RECURSIVE ResolvePairs(_, _)
\* [recursive_get_or_call(i) for i in item], with the counter handed on.
ResolveItems(items, n) ==
  IF items = <<>>
    THEN [val |-> <<>>, n |-> n]
    ELSE LET h == recursive_get_or_call(Head(items), n)
             t == ResolveItems(Tail(items), h.n)
         IN [val |-> <<h.val>> \o t.val, n |-> t.n]

\* {k: recursive_get_or_call(v) for k, v in item.items()}
ResolvePairs(items, n) ==
  IF items = <<>>
    THEN [val |-> <<>>, n |-> n]
    ELSE LET h == recursive_get_or_call(Head(items).v, n)
             t == ResolvePairs(Tail(items), h.n)
         IN [val |-> <<Pair(Head(items).k, h.val)>> \o t.val, n |-> t.n]

\* _format_body.recursive_get_or_call, lines 590-599, for a counter whose
\* num is n: the resolved item and the counter's num afterwards.
recursive_get_or_call(item, n) ==
  CASE item.t = "dict" ->
         LET r == ResolvePairs(item.items, n) IN [val |-> Dict(r.val), n |-> r.n]
    [] item.t = "list" ->
         LET r == ResolveItems(item.items, n) IN [val |-> List(r.val), n |-> r.n]
    [] item.t = "it" -> [val |-> Lit(PyInt(n + 1)), n |-> n + 1]
    [] item.t = "fn" ->
         IF item.ret.t \in {"list", "dict"}
           THEN recursive_get_or_call(item.ret, n)
           ELSE [val |-> item.ret, n |-> n]
    [] OTHER -> [val |-> item, n |-> n]

RECURSIVE Join(_, _)
\* ", ".join(parts)
Join(parts, sep) ==
  IF parts = <<>> THEN ""
  ELSE IF Len(parts) = 1 THEN parts[1]
  ELSE parts[1] \o sep \o Join(Tail(parts), sep)

RECURSIVE json_dumps(_)
\* json.dumps of a resolved body.
json_dumps(v) ==
  CASE v.t = "dict" ->
         "{" \o Join([i \in 1..Len(v.items) |->
                        "\"" \o v.items[i].k \o "\": "
                          \o json_dumps(v.items[i].v)], ", ") \o "}"
    [] v.t = "list" ->
         "[" \o Join([i \in 1..Len(v.items) |-> json_dumps(v.items[i])], ", ")
             \o "]"
    [] v.t = "lit" ->
         (CASE v.v.t = "int" -> IntToStr(v.v.i)
            [] v.v.t = "str" -> "\"" \o v.v.s \o "\""
            [] OTHER -> "null")
    [] OTHER -> "TypeError"

\* A rendering of the template as it stands, with no producer called.
_format_body_unresolved(body, n) ==
  IF body = NoBody
    THEN [data |-> None, val |-> NoBody, n |-> n]
    ELSE [data |-> json_dumps(body), val |-> body, n |-> n]

\* _format_body, lines 586-601, for a counter whose num is n: the string
\* returned (None for no body), the resolved body it renders, and the
\* counter's num afterwards.
_format_body(body, n) ==
  IF body = NoBody
    THEN [data |-> None, val |-> NoBody, n |-> n]
    ELSE LET r == recursive_get_or_call(body, n)
         IN [data |-> json_dumps(r.val), val |-> r.val, n |-> r.n]

\* A body that is resolved for the first request and sent again after it.
inner_call_data_cached(body, n, sent) ==
  IF sent = <<>>
    THEN _format_body(body, n)
    ELSE [data |-> sent[Len(sent)].data, val |-> sent[Len(sent)].val, n |-> n]

\* inner_call, line 540: the data of a request is formatted when the
\* request is made, whatever was sent before.
inner_call_data(body, n, sent) == _format_body(body, n)

(***************************************************************************)
(* _call, lines 550-554: the decoding of a response. JSON values are the   *)
(* trees of the body templates without producers; the response types are   *)
(* the dataclasses of the tests.                                           *)
(***************************************************************************)
\* Largest number of elements of a list the test server answers with.
MaxItems == 2

\* The elements of those lists: {"it": 1, "cursor": null},
\* {"it": 2, "cursor": "c1"}, {"it": 3} and the number 7.
Elements ==
  { Dict(<<Pair("it", Lit(PyInt(1))), Pair("cursor", Lit(PyNone))>>),
    Dict(<<Pair("it", Lit(PyInt(2))), Pair("cursor", Lit(PyStr("c1")))>>),
    Dict(<<Pair("it", Lit(PyInt(3)))>>),
    Lit(PyInt(7)) }

JsonLists == {List(l) : l \in UNION {[1..n -> Elements] : n \in 0..MaxItems}}

\* The values raw_response.json() returns: lists, objects with an items
\* field, objects without one.
Payloads ==
  JsonLists
    \cup {Dict(<<Pair("items", l)>>) : l \in JsonLists}
    \cup {Dict(<<Pair("cursor", Lit(PyStr("c1"))), Pair("items", l)>>) :
            l \in JsonLists}
    \cup Elements \cup {Dict(<<>>), Dict(<<Pair("items", Lit(PyInt(7)))>>)}

\* The dataclasses of test_requests.py.
ResponseTypes == {"MyResponseType", "ResponseTypeList"}

\* dacite.from_dict raised.
DaciteError == [t |-> "DaciteError"]

\* from_dict has not been called.
NotDecoded == [t |-> "none"]

\* dacite.from_dict(response_type, data) for the dataclasses of the tests:
\* MyResponseType(it: int, cursor: Optional[str]) and
\* ResponseTypeList(items: List[MyResponseType]). A missing field without a
\* default and a value of the wrong type raise; other keys are ignored.
from_dict(type, data) ==
  LET Keys(d) == {d.items[i].k : i \in 1..Len(d.items)}
      Get(d, k) == d.items[CHOOSE i \in 1..Len(d.items) : d.items[i].k = k].v
      IsInt(v) == v.t = "lit" /\ v.v.t = "int"
      IsOptStr(v) == v.t = "lit" /\ v.v.t \in {"str", "none"}
      Fits(d) ==
        /\ d.t = "dict"
        /\ "it" \in Keys(d) /\ IsInt(Get(d, "it"))
        /\ "cursor" \in Keys(d) => IsOptStr(Get(d, "cursor"))
      Item(d) ==
        [t |-> "MyResponseType", it |-> Get(d, "it").v.i,
         cursor |-> IF "cursor" \in Keys(d) THEN Get(d, "cursor").v ELSE PyNone]
  IN IF data.t # "dict" THEN DaciteError
     ELSE IF type = "MyResponseType"
       THEN IF Fits(data) THEN Item(data) ELSE DaciteError
     ELSE IF /\ "items" \in Keys(data)
             /\ Get(data, "items").t = "list"
             /\ \A i \in 1..Len(Get(data, "items").items) :
                  Fits(Get(data, "items").items[i])
       THEN [t |-> "ResponseTypeList",
             items |-> [i \in 1..Len(Get(data, "items").items) |->
                          Item(Get(data, "items").items[i])]]
       ELSE DaciteError

\* A decoding that hands every payload to from_dict as it is.
ListAsItemsSkipped(data) == data

\* _call, lines 552-553: a list becomes the items field of an object.
ListAsItems(data) ==
  IF data.t = "list" THEN Dict(<<Pair("items", data)>>) ELSE data

(***************************************************************************)
(* AuthenticationProvider. An AuthConfig is given by which of its schemes  *)
(* are not None.                                                           *)
(***************************************************************************)
\* config.source.auth is None.
NoAuth == [isNone |-> TRUE, basic |-> FALSE, oauth |-> FALSE]

AuthConfig(basic, oauth) == [isNone |-> FALSE, basic |-> basic, oauth |-> oauth]

AuthConfigs == {NoAuth} \cup {AuthConfig(b, o) : b, o \in BOOLEAN}

\* The configurations with exactly one scheme.
OneScheme == {AuthConfig(TRUE, FALSE), AuthConfig(FALSE, TRUE)}

_number_of_not_nones(a, b) == (IF a THEN 1 ELSE 0) + (IF b THEN 1 ELSE 0)

\* A constructor that only asks for some scheme.
ProviderRaisesWithoutScheme(config) ==
  ~config.isNone /\ _number_of_not_nones(config.oauth, config.basic) = 0

\* AuthenticationProvider.__init__, lines 53-55: the condition of the raise.
ProviderRaises(config) ==
  ~config.isNone /\ _number_of_not_nones(config.oauth, config.basic) # 1

\* self.authentication before __enter__.
NoProvider == [made |-> FALSE, config |-> NoAuth]

AuthenticationProvider(config) == [made |-> TRUE, config |-> config]

\* AuthenticationProvider.is_configured
is_configured(provider) == ~provider.config.isNone

(***************************************************************************)
(* Initial state: the extractor is constructed; the decorators are about   *)
(* to register the endpoints of one scenario.                              *)
(***************************************************************************)
Start(scenarios) ==
  /\ _initial_endpoints = SomeList(<<>>)
  /\ _call_queue = {}
  /\ n_executing = 0
  /\ cancelation_token = FALSE
  /\ now = 1
  /\ runState = "init"
  /\ pc = "idle"
  /\ waiting = NoCall
  /\ next = NoCall
  /\ deadline = 0
  /\ pool = <<>>
  /\ running = {}
  /\ errors = <<>>
  /\ pushed = 0
  /\ finished = {}
  /\ requests = [e \in EndpointNames |-> <<>>]
  /\ handler_calls = [e \in EndpointNames |-> 0]
  /\ registered = [e \in EndpointNames |-> 0]
  /\ next_page_calls = [e \in EndpointNames |-> 0]
  /\ routed = [e \in EndpointNames |-> 0]
  /\ parallelism \in Parallelisms
  /\ run_error = <<>>
  /\ scenario \in scenarios
  /\ auth_config \in AuthConfigs
  /\ auth_config \in OneScheme => scenario = <<"once">>
  /\ authentication = NoProvider
  /\ header_sources = NoSources
  /\ prepared = NotPrepared
  /\ body_template = NoBody
  /\ it_num = 0
  /\ sent_bodies = <<>>
  /\ payload = NoBody
  /\ response_type = None
  /\ response = NotDecoded
  /\ call_url = NoUrl
  /\ endpoint_query = NoDict
  /\ merges = 0

Init == Start(Scenarios)

(***************************************************************************)
(* __enter__: the authentication provider is constructed, every collected  *)
(* endpoint becomes a call with call_when 0, then the configured           *)
(* parallelism is checked.                                                 *)
(***************************************************************************)
\* An __enter__ that accepts every parallelism.
ParallelismAny(p) == TRUE

\* __enter__, line 402: the negation of the condition of the raise.
ParallelismValid(p) == ~(p <= 0)

\* _add_endpoint: the call a registration puts on the live queue.
NewCall(ep, n) ==
  [id |-> n + 1, ep |-> ep, url |-> _get_initial_url(ep), call_when |-> 0,
   dyn |-> TRUE]

\* A registration that is always buffered in the initial list.
_add_endpoint_buffered(ep) ==
  /\ _initial_endpoints' = SomeList(Append(_initial_endpoints.items, ep))
  /\ UNCHANGED <<_call_queue, pushed>>

\* A registration during the run that is dropped when a handler has
\* registered the endpoint before.
_add_endpoint_unique(ep) ==
  IF ~_initial_endpoints.isNone
    THEN /\ _initial_endpoints' = SomeList(Append(_initial_endpoints.items, ep))
         /\ UNCHANGED <<_call_queue, pushed>>
    ELSE IF registered[ep] > 0
      THEN UNCHANGED <<_initial_endpoints, _call_queue, pushed>>
      ELSE /\ _call_queue' = _call_queue \cup {NewCall(ep, pushed)}
           /\ pushed' = pushed + 1
           /\ UNCHANGED _initial_endpoints

\* A registration that is always pushed to the live queue.
_add_endpoint_pushed(ep) ==
  /\ _call_queue' = _call_queue \cup {NewCall(ep, pushed)}
  /\ pushed' = pushed + 1
  /\ UNCHANGED _initial_endpoints

\* _add_endpoint: collect the endpoint before the run, push its call during it.
_add_endpoint(ep) ==
  IF ~_initial_endpoints.isNone
    THEN /\ _initial_endpoints' = SomeList(Append(_initial_endpoints.items, ep))
         /\ UNCHANGED <<_call_queue, pushed>>
    ELSE /\ _call_queue' = _call_queue \cup {NewCall(ep, pushed)}
         /\ pushed' = pushed + 1
         /\ UNCHANGED _initial_endpoints

\* A decorator (get, post, endpoint) registers the next endpoint of the
\* scenario before the with-block is entered.
Register ==
  /\ runState = "init"
  /\ Len(_initial_endpoints.items) < Len(scenario)
  /\ _add_endpoint(scenario[Len(_initial_endpoints.items) + 1])
  /\ UNCHANGED <<otherVars, n_executing, cancelation_token, now, prodVars,
                 pool, running, errors, finished, logVars, runState>>

\* An __enter__ that queues one call per distinct endpoint of the list.
InitialCallsDistinct(eps) ==
  {[id |-> i, ep |-> eps[i], url |-> _get_initial_url(eps[i]), call_when |-> 0,
    dyn |-> FALSE] : i \in {j \in 1..Len(eps) :
                               \A k \in 1..(j - 1) : eps[k] # eps[j]}}

\* __enter__, lines 395-400: _add_endpoint for every collected endpoint.
InitialCalls(eps) ==
  {[id |-> i, ep |-> eps[i], url |-> _get_initial_url(eps[i]), call_when |-> 0,
    dyn |-> FALSE] : i \in 1..Len(eps)}

Enter ==
  /\ runState = "init"
  /\ ~_initial_endpoints.isNone
  /\ _initial_endpoints.items = scenario
  /\ IF ProviderRaises(auth_config)
       THEN /\ runState' = "config_error"
            /\ UNCHANGED <<authentication, _initial_endpoints, _call_queue,
                           pushed>>
       ELSE /\ authentication' = AuthenticationProvider(auth_config)
            /\ _call_queue' =
                 _call_queue \cup InitialCalls(_initial_endpoints.items)
            /\ pushed' = pushed + Len(_initial_endpoints.items)
            /\ _initial_endpoints' = NoList
            /\ runState' = IF ParallelismValid(parallelism)
                             THEN "entered"
                             ELSE "config_error"
  /\ UNCHANGED <<parallelism, run_error, scenario, pureVars, auth_config,
                 n_executing, cancelation_token, now, prodVars, pool, running,
                 errors, finished, logVars>>

\* run(): the pool is created and the producer thread started.
RunStart ==
  /\ runState = "entered"
  /\ runState' = "running"
  /\ pc' = "loop"
  /\ UNCHANGED <<otherVars, _initial_endpoints, _call_queue, n_executing,
                 cancelation_token, now, waiting, next, deadline, pool,
                 running, errors, pushed, finished, logVars>>

(***************************************************************************)
(* The producer thread.                                                    *)
(***************************************************************************)
workVars == <<_initial_endpoints, pool, running, errors, pushed, finished,
              logVars>>

\* A producer that also stops once a call has failed.
ProducerStopsOnError == cancelation_token \/ errors # <<>>

\* producer_loop, line 501: the negation of the loop condition.
ProducerStops == cancelation_token

\* producer_loop, line 501, and the call of _get_next_call.
ProducerLoop ==
  /\ pc = "loop"
  /\ IF ProducerStops
       THEN pc' = "done" /\ UNCHANGED waiting
       ELSE pc' = "while" /\ waiting' = NoCall
  /\ UNCHANGED <<otherVars, _call_queue, n_executing, cancelation_token, now, runState,
                 next, deadline, workVars>>

\* _get_next_call, line 448 and the read of n_executing in line 454.
ProducerWhile ==
  /\ pc = "while"
  /\ IF cancelation_token
       THEN pc' = "done"
       ELSE IF NoneExecuting(n_executing)
              THEN pc' = "empty"
              ELSE pc' = "towait"
  /\ UNCHANGED <<otherVars, _call_queue, n_executing, cancelation_token, now, runState,
                 waiting, next, deadline, workVars>>

\* line 454, second operand, and line 455.
ProducerEmpty ==
  /\ pc = "empty"
  /\ IF _call_queue = {}
       THEN IF waiting # NoCall
              THEN next' = waiting /\ pc' = "submit"
              ELSE next' = next /\ pc' = "done"
       ELSE next' = next /\ pc' = "towait"
  /\ UNCHANGED <<otherVars, _call_queue, n_executing, cancelation_token, now, runState,
                 waiting, deadline, workVars>>

\* lines 456-460: the held call is due, or the producer blocks in get().
ProducerToWait ==
  /\ pc = "towait"
  /\ IF waiting # NoCall /\ to_wait(waiting, now) <= 0
       THEN next' = waiting /\ pc' = "submit" /\ UNCHANGED deadline
       ELSE next' = next /\ pc' = "get" /\ deadline' = now + to_wait(waiting, now)
  /\ UNCHANGED <<otherVars, _call_queue, n_executing, cancelation_token, now, runState,
                 waiting, workVars>>

\* A comparison that never prefers the dequeued call.
EarlierNever(c, w) == FALSE

\* _get_next_call, line 464: the dequeued call is due strictly before the
\* held one.
Earlier(c, w) == c.call_when < w.call_when

\* lines 460-470: get() returns an item, which is compared with the held one.
ProducerGet ==
  /\ pc = "get"
  /\ _call_queue # {}
  /\ \E c \in MinCalls(_call_queue) :
       IF waiting # NoCall /\ Earlier(c, waiting)
         THEN /\ _call_queue' = (_call_queue \ {c}) \cup {waiting}
              /\ waiting' = c
              /\ pc' = "while"
              /\ deadline' = 0
         ELSE IF waiting = NoCall
                THEN /\ _call_queue' = _call_queue \ {c}
                     /\ waiting' = c
                     /\ pc' = "while"
                     /\ deadline' = 0
                ELSE /\ _call_queue' = _call_queue \ {c}
                     /\ waiting' = waiting
                     /\ pc' = "cwait"
                     /\ deadline' = now + Min(_min_check_interval,
                                              waiting.call_when - now)
  /\ UNCHANGED <<otherVars, n_executing, cancelation_token, now, runState, next, workVars>>

\* lines 461-462: get() times out.
ProducerGetEmpty ==
  /\ pc = "get"
  /\ _call_queue = {}
  /\ TimedOut(now, deadline)
  /\ pc' = "while"
  /\ deadline' = 0
  /\ UNCHANGED <<otherVars, _call_queue, n_executing, cancelation_token, now, runState,
                 waiting, next, workVars>>

\* line 470: cancelation_token.wait(timeout) returns.
ProducerCancelWait ==
  /\ pc = "cwait"
  /\ cancelation_token \/ TimedOut(now, deadline)
  /\ pc' = "while"
  /\ deadline' = 0
  /\ UNCHANGED <<otherVars, _call_queue, n_executing, cancelation_token, now, runState,
                 waiting, next, workVars>>

\* producer_loop, lines 505-507.
ProducerSubmit ==
  /\ pc = "submit"
  /\ n_executing' = n_executing + 1
  /\ pool' = Append(pool, next)
  /\ next' = NoCall
  /\ pc' = "loop"
  /\ UNCHANGED <<otherVars, _initial_endpoints, _call_queue, cancelation_token, now,
                 runState, waiting, deadline, running, errors, pushed,
                 finished, logVars>>

(***************************************************************************)
(* The worker pool.                                                        *)
(***************************************************************************)
\* A work item a pool thread executes: the call, the thread's position, the
\* number of registrations its handler has made, the failed attempts, and
\* the end of the retry loop's current wait.
Worker(c, p, r) == [call |-> c, pc |-> p, reg |-> r, tries |-> 0, until |-> 0]

\* A pool thread picks up the oldest submitted work item and enters _call:
\* the endpoint's query is merged into the call's URL.
WorkerStart ==
  /\ pool # <<>>
  /\ ThreadFree(Cardinality(running))
  /\ LET c == Head(pool)
         u == add_to_query(c.url, SomeDict(Endpoints[c.ep].query))
     IN running' = running \cup {Worker([c EXCEPT !.url = u], "request", 0)}
  /\ pool' = Tail(pool)
  /\ UNCHANGED <<otherVars, _initial_endpoints, _call_queue, n_executing,
                 cancelation_token, now, runState, prodVars, errors, pushed,
                 finished, logVars>>

\* The test server: whether it answers the given attempt of a call of the
\* endpoint with an HTTP error status.
ServerFails(ep, attempt) ==
  Endpoints[ep].fails \/ attempt <= Endpoints[ep].flaky

\* A retry loop without a limit on its tries.
TriesLeftAlways(failed) == TRUE

\* A call that gives up at its first HTTP error.
TriesLeftNever(failed) == FALSE

\* retry(tries=number): after the given number of failed attempts another
\* attempt is made.
TriesLeft(failed) == failed < retries_number

\* A retry loop that does not look at the cancelation token.
RetryCancelledNever(token) == FALSE

\* _call, line 528: the retry loop is given the cancelation token and makes
\* no attempt once it is set.
RetryCancelled(token) == token

\* _call, lines 527-548: one pass of the retry loop around inner_call. The
\* loop ends without an attempt when the cancelation token is set, and the
\* missing response raises in line 551; otherwise the request is sent, and
\* an HTTP error status is retried after a wait, or raised when no try is
\* left. executor_call records whatever is raised.
WorkerRequest(w) ==
  /\ w.pc = "request"
  /\ IF RetryCancelled(cancelation_token)
       THEN /\ errors' = Append(errors, [ep |-> w.call.ep,
                                         error |-> "AttributeError"])
            /\ running' = (running \ {w}) \cup {[w EXCEPT !.pc = "finish"]}
            /\ UNCHANGED requests
       ELSE /\ requests' = [requests EXCEPT ![w.call.ep] = Append(@, w.call.url)]
            /\ IF ServerFails(w.call.ep, w.tries + 1)
                 THEN IF TriesLeft(w.tries + 1)
                        THEN /\ errors' = errors
                             /\ running' = (running \ {w}) \cup
                                  {[w EXCEPT !.pc = "backoff",
                                             !.tries = w.tries + 1,
                                             !.until = now + RetryDelay]}
                        ELSE /\ errors' = Append(errors,
                                    [ep |-> w.call.ep, error |-> "HTTPError"])
                             /\ running' = (running \ {w}) \cup
                                  {[w EXCEPT !.pc = "finish",
                                             !.tries = w.tries + 1,
                                             !.until = 0]}
                 ELSE /\ errors' = errors
                      /\ running' = (running \ {w}) \cup
                           {[w EXCEPT !.pc = "handler", !.until = 0]}
  /\ UNCHANGED <<otherVars, _initial_endpoints, _call_queue, n_executing,
                 cancelation_token, now, runState, prodVars, pool, pushed,
                 finished, handler_calls, registered, next_page_calls, routed>>

\* A wait between attempts that sleeps to its end whatever the token says.
WaitInterruptedNever(token) == FALSE

\* _call, line 528: the retry loop waits on the cancelation token, so the
\* wait returns as soon as the token is set.
WaitInterrupted(token) == token

\* The retry loop's cancelation_token.wait(delay) between two attempts
\* returns, at the timeout or when the token is set.
WorkerBackoff(w) ==
  /\ w.pc = "backoff"
  /\ WaitInterrupted(cancelation_token) \/ TimedOut(now, w.until)
  /\ running' = (running \ {w}) \cup {[w EXCEPT !.pc = "request"]}
  /\ UNCHANGED <<otherVars, _initial_endpoints, _call_queue, n_executing,
                 cancelation_token, now, runState, prodVars, pool, errors,
                 pushed, finished, logVars>>

\* A failure of the decoding or of the handler that is retried like an HTTP
\* error.
AfterRaiseRetried == "backoff"

\* A failure of the decoding or of the handler after which the pagination
\* function is still asked for a follow-up.
AfterRaisePaginated == "next_page"

\* _call, lines 548-562: the decoding and the handler are outside of the
\* retried inner_call, so what they raise leaves _call.
AfterRaise == "finish"

\* An output router that passes over what it does not know.
RoutingRaisesNever(ep) == FALSE

\* _call, line 559: handle_output raises ValueError when the first item of
\* the output is neither an event, a row nor a batch of datapoints.
RoutingRaises(ep) == Endpoints[ep].breaks = "route"

\* _call, line 558: the handler raises, for every response or for the one
\* of the second page.
HandlerRaises(c) ==
  \/ Endpoints[c.ep].breaks = "handler"
  \/ Endpoints[c.ep].breaks = "page2" /\ PageOf(c.url) = 2

\* A call whose output is handed to the sinks only after the pagination
\* decision.
HandleOutputDeferred(n, last) == n

\* _call, line 559: the output is routed when the handler has returned.
HandleOutput(n, last) == IF last THEN n + 1 ELSE n

\* _call, lines 550-562: the response is decoded and the handler runs; each
\* step is one registration made by the handler (or the whole handler, when
\* it registers nothing), and with the last one the output is routed. A body
\* that does not decode raises before the handler is invoked; a handler that
\* raises does so after its registrations; an output of an unknown kind
\* raises before anything is routed. Whatever is raised skips
\* _handle_call_response and is recorded by executor_call.
WorkerHandler(w) ==
  /\ w.pc = "handler"
  /\ LET ep == w.call.ep
         regs == Endpoints[ep].registers
         last == w.reg + 1 >= Len(regs)
     IN IF Endpoints[ep].breaks = "decode"
          THEN /\ errors' = Append(errors, [ep |-> ep,
                                            error |-> "JSONDecodeError"])
               /\ running' = (running \ {w}) \cup {[w EXCEPT !.pc = AfterRaise]}
               /\ UNCHANGED <<_initial_endpoints, _call_queue, pushed,
                              registered, handler_calls, routed>>
          ELSE /\ IF w.reg < Len(regs)
                    THEN /\ _add_endpoint(regs[w.reg + 1])
                         /\ registered' =
                              [registered EXCEPT ![regs[w.reg + 1]] = @ + 1]
                    ELSE UNCHANGED <<_initial_endpoints, _call_queue, pushed,
                                     registered>>
               /\ handler_calls' = [handler_calls EXCEPT ![ep] =
                                      IF w.reg = 0 THEN @ + 1 ELSE @]
               /\ IF last /\ (HandlerRaises(w.call) \/ RoutingRaises(ep))
                    THEN /\ errors' = Append(errors, [ep |-> ep,
                                                      error |-> "ValueError"])
                         /\ running' = (running \ {w}) \cup
                              {[w EXCEPT !.reg = 0, !.pc = AfterRaise]}
                         /\ UNCHANGED routed
                    ELSE /\ errors' = errors
                         /\ routed' = [routed EXCEPT ![ep] =
                                         HandleOutput(@, last)]
                         /\ running' = (running \ {w}) \cup
                              {[w EXCEPT !.reg = w.reg + 1,
                                         !.pc = IF last THEN "next_page"
                                                        ELSE "handler"]}
  /\ UNCHANGED <<otherVars, n_executing, cancelation_token, now, runState,
                 prodVars, pool, finished, requests, next_page_calls>>

\* A pagination decision that does not wait for the handler.
PaginationDueEarly(w) == w.pc \in {"handler", "next_page"}

\* executor_call, lines 490-491: _handle_call_response runs after _call
\* returned.
PaginationDue(w) == w.pc = "next_page"

\* An engine that asks a pagination function of every endpoint.
HasNextPageAlways(ep) == TRUE

\* _handle_call_response, line 567: the endpoint has a pagination function.
HasNextPage(ep) == Endpoints[ep].next_page

\* _handle_call_response, line 569: the pagination function raises.
NextPageRaises(ep) == Endpoints[ep].breaks = "next_page"

\* _handle_call_response: the pagination function decides on a follow-up;
\* what it raises is recorded by executor_call and nothing is put on the
\* queue.
WorkerNextPage(w) ==
  /\ PaginationDue(w)
  /\ LET ep == w.call.ep
         next_url == NextPage(ep, w.call.url)
     IN IF ~HasNextPage(ep)
          THEN UNCHANGED <<_call_queue, pushed, next_page_calls, errors>>
          ELSE /\ next_page_calls' = [next_page_calls EXCEPT ![ep] = @ + 1]
               /\ IF NextPageRaises(ep)
                    THEN /\ errors' = Append(errors, [ep |-> ep,
                                                      error |-> "KeyError"])
                         /\ UNCHANGED <<_call_queue, pushed>>
                    ELSE /\ errors' = errors
                         /\ IF next_url # NoUrl
                              THEN /\ _call_queue' = _call_queue \cup
                                        {[id |-> pushed + 1, ep |-> ep,
                                          url |-> next_url,
                                          call_when |-> FollowUpWhen(ep, now),
                                          dyn |-> w.call.dyn]}
                                   /\ pushed' = pushed + 1
                              ELSE UNCHANGED <<_call_queue, pushed>>
  /\ running' = (running \ {w}) \cup {[w EXCEPT !.pc = "finish"]}
  /\ UNCHANGED <<otherVars, _initial_endpoints, n_executing, cancelation_token, now,
                 runState, prodVars, pool, finished, requests,
                 handler_calls, registered, routed>>

\* A worker that leaves the in-flight counter as it is.
AfterCallKept(n) == n

\* executor_call, lines 494-495: n_executing -= 1, under the lock.
AfterCall(n) == n - 1

\* executor_call, lines 494-495: the in-flight counter is decremented.
WorkerFinish(w) ==
  /\ w.pc = "finish"
  /\ n_executing' = AfterCall(n_executing)
  /\ running' = running \ {w}
  /\ finished' = finished \cup {w.call.id}
  /\ UNCHANGED <<otherVars, _initial_endpoints, _call_queue, cancelation_token, now,
                 runState, prodVars, pool, errors, pushed, logVars>>

(***************************************************************************)
(* The end of run(): the producer is joined, the pool shut down.           *)
(***************************************************************************)
RunJoined == runState = "running" /\ pc = "done" /\ pool = <<>> /\ running = {}

RunReturn ==
  /\ RunJoined
  /\ errors = <<>>
  /\ runState' = "returned"
  /\ UNCHANGED <<otherVars, _initial_endpoints, _call_queue, n_executing,
                 cancelation_token, now, prodVars, pool, running, errors,
                 pushed, finished, logVars>>

\* A message that names the first failure only.
ErrorMessageFirst(errs) ==
  <<"Error in endpoint '" \o errs[1].ep \o "': " \o errs[1].error>>

\* run, lines 516-521: one part per recorded failure, in the order recorded.
ErrorMessage(errs) ==
  [i \in 1..Len(errs) |->
     "Error in endpoint '" \o errs[i].ep \o "': " \o errs[i].error]

RunRaise ==
  /\ RunJoined
  /\ errors # <<>>
  /\ runState' = "raised"
  /\ run_error' = ErrorMessage(errors)
  /\ UNCHANGED <<parallelism, scenario, pureVars, auth_config, authentication,
                 _initial_endpoints, _call_queue, n_executing,
                 cancelation_token, now, prodVars, pool, running, errors,
                 pushed, finished, logVars>>

(***************************************************************************)
(* The environment: the cancellation signal and the clock.                 *)
(***************************************************************************)
Cancel ==
  /\ runState = "running"
  /\ ~cancelation_token
  /\ cancelation_token' = TRUE
  /\ UNCHANGED <<otherVars, _initial_endpoints, _call_queue, n_executing, now, runState,
                 prodVars, pool, running, errors, pushed, finished, logVars>>

\* The producer is blocked in a timed wait that only the clock can end.
ProducerTimedOutOnly ==
  /\ pc \in {"get", "cwait"}
  /\ deadline > now
  /\ _call_queue = {}
  /\ pool = <<>>
  /\ running = {}

Tick ==
  /\ runState = "running"
  /\ now < MaxTime
  /\ now' = now + 1
  /\ UNCHANGED <<otherVars, _initial_endpoints, _call_queue, n_executing,
                 cancelation_token, runState, prodVars, pool, running, errors,
                 pushed, finished, logVars>>

\* Every worker is in the wait between two attempts, which only the clock
\* can end.
WorkersTimedOutOnly ==
  /\ pool = <<>>
  /\ running # {}
  /\ \A w \in running : w.pc = "backoff" /\ w.until > now

\* Past MaxTime the clock advances only while nothing but the clock can
\* wake the producer or the workers.
TickIdle ==
  /\ runState = "running"
  /\ now >= MaxTime
  /\ ProducerTimedOutOnly \/ WorkersTimedOutOnly
  /\ now' = now + 1
  /\ UNCHANGED <<otherVars, _initial_endpoints, _call_queue, n_executing,
                 cancelation_token, runState, prodVars, pool, running, errors,
                 pushed, finished, logVars>>

Next ==
  \/ Register
  \/ Enter
  \/ RunStart
  \/ ProducerLoop
  \/ ProducerWhile
  \/ ProducerEmpty
  \/ ProducerToWait
  \/ ProducerGet
  \/ ProducerGetEmpty
  \/ ProducerCancelWait
  \/ ProducerSubmit
  \/ WorkerStart
  \/ \E w \in running : WorkerRequest(w)
  \/ \E w \in running : WorkerBackoff(w)
  \/ \E w \in running : WorkerHandler(w)
  \/ \E w \in running : WorkerNextPage(w)
  \/ \E w \in running : WorkerFinish(w)
  \/ RunReturn
  \/ RunRaise
  \/ Cancel
  \/ Tick
  \/ TickIdle

Spec == Init /\ [][Next]_vars

\* The threads, the clock and the end of run() keep going.
Fairness ==
  /\ WF_vars(ProducerLoop \/ ProducerWhile \/ ProducerEmpty \/ ProducerToWait
             \/ ProducerGet \/ ProducerGetEmpty \/ ProducerCancelWait
             \/ ProducerSubmit)
  /\ WF_vars(WorkerStart)
  /\ WF_vars(\E w \in running :
               WorkerRequest(w) \/ WorkerBackoff(w) \/ WorkerHandler(w)
               \/ WorkerNextPage(w)
               \/ WorkerFinish(w))
  /\ WF_vars(Register \/ Enter \/ RunStart \/ RunReturn \/ RunRaise)
  /\ WF_vars(Tick \/ TickIdle)

\* The runs whose termination is followed: those of every endpoint list but
\* the two with the most calls in flight at once.
LiveScenarios == Scenarios \ {<<"parent">>, <<"once", "once", "once">>}

LiveInit == Init /\ scenario \in LiveScenarios

LiveSpec == LiveInit /\ [][Next]_vars /\ Fairness

\* The runs in which the producer holds back a follow-up of an interval
\* endpoint while calls that are ready at once are still being pushed: two
\* interval endpoints next to a paginated one without interval; and the run
\* of the endpoint whose calls are retried.
LookaheadScenarios == {<<"poll", "poll", "child">>, <<"flaky">>}

LookaheadInit ==
  /\ Start(LookaheadScenarios)
  /\ parallelism = request_parallelism
  /\ auth_config = NoAuth

LookaheadSpec == LookaheadInit /\ [][Next]_vars

(***************************************************************************)
(* The pure functions of the extractor, applied to inputs drawn from       *)
(* bounded sets while the engine is idle.                                  *)
(***************************************************************************)
\* The engine as constructed, with no endpoint registered.
EngineIdle ==
  /\ _initial_endpoints = SomeList(<<>>)
  /\ _call_queue = {}
  /\ n_executing = 0
  /\ cancelation_token = FALSE
  /\ now = 1
  /\ runState = "init"
  /\ pc = "idle"
  /\ waiting = NoCall
  /\ next = NoCall
  /\ deadline = 0
  /\ pool = <<>>
  /\ running = {}
  /\ errors = <<>>
  /\ pushed = 0
  /\ finished = {}
  /\ requests = [e \in EndpointNames |-> <<>>]
  /\ handler_calls = [e \in EndpointNames |-> 0]
  /\ registered = [e \in EndpointNames |-> 0]
  /\ next_page_calls = [e \in EndpointNames |-> 0]
  /\ routed = [e \in EndpointNames |-> 0]
  /\ parallelism = request_parallelism
  /\ run_error = <<>>
  /\ scenario = <<>>
  /\ auth_config = NoAuth
  /\ authentication = NoProvider

engineVars == <<_initial_endpoints, _call_queue, n_executing,
                cancelation_token, now, runState, prodVars, pool, running,
                errors, pushed, finished, logVars, parallelism, run_error,
                scenario, auth_config, authentication>>

HeaderInit ==
  /\ EngineIdle
  /\ header_sources \in HeaderSources
  /\ prepared = NotPrepared
  /\ body_template = NoBody
  /\ it_num = 0
  /\ sent_bodies = <<>>
  /\ payload = NoBody
  /\ response_type = None
  /\ response = NotDecoded
  /\ call_url = NoUrl
  /\ endpoint_query = NoDict
  /\ merges = 0

\* inner_call, line 541: the headers of a request are prepared.
PrepareHeaders ==
  /\ ~prepared.done
  /\ prepared' = [done |-> TRUE, d |-> prepare_headers(header_sources)]
  /\ UNCHANGED <<engineVars, header_sources, bodyVars, decodeVars, queryVars>>

HeaderNext == PrepareHeaders

HeaderSpec == HeaderInit /\ [][HeaderNext]_vars

BodyInit ==
  /\ EngineIdle
  /\ header_sources = NoSources
  /\ prepared = NotPrepared
  /\ body_template \in Templates
  /\ it_num = 0
  /\ sent_bodies = <<>>
  /\ payload = NoBody
  /\ response_type = None
  /\ response = NotDecoded
  /\ call_url = NoUrl
  /\ endpoint_query = NoDict
  /\ merges = 0

\* One run of inner_call: the body is rendered and sent.
Send(retry) ==
  /\ Len(sent_bodies) < MaxSends
  /\ LET r == inner_call_data(body_template, it_num, sent_bodies)
     IN /\ sent_bodies' = Append(sent_bodies,
                                 [data |-> r.data, val |-> r.val,
                                  retry |-> retry])
        /\ it_num' = r.n
  /\ UNCHANGED <<engineVars, headerVars, body_template, decodeVars,
                 queryVars>>

\* The first attempt of a call of the endpoint.
BodyCall == Send(FALSE)

\* The retry decorator runs inner_call again after an HTTP error.
BodyRetry == sent_bodies # <<>> /\ Send(TRUE)

BodyNext == BodyCall \/ BodyRetry

BodySpec == BodyInit /\ [][BodyNext]_vars

DecodeInit ==
  /\ EngineIdle
  /\ header_sources = NoSources
  /\ prepared = NotPrepared
  /\ body_template = NoBody
  /\ it_num = 0
  /\ sent_bodies = <<>>
  /\ payload \in Payloads
  /\ response_type \in ResponseTypes
  /\ response = NotDecoded
  /\ call_url = NoUrl
  /\ endpoint_query = NoDict
  /\ merges = 0

\* _call, lines 551-554: the payload is decoded into the response type.
Decode ==
  /\ response = NotDecoded
  /\ response' = from_dict(response_type, ListAsItems(payload))
  /\ UNCHANGED <<engineVars, headerVars, bodyVars, payload, response_type,
                 queryVars>>

DecodeSpec == DecodeInit /\ [][Decode]_vars

(***************************************************************************)
(* _incompatible_lists_to_dict, the conversion of a payload that the tests *)
(* of extractor.py exercise (TestIncompatibleListsToDict).                 *)
(***************************************************************************)
\* The objects and the literal at the leaves of the tests' payloads.
Leaves ==
  { Dict(<<Pair("key1", Lit(PyStr("val1")))>>),
    Dict(<<Pair("key", Dict(<<Pair("inner_key", Lit(PyStr("inner_val")))>>))>>) }

\* Lists of at most MaxItems elements of a set.
ListsOf(S) == {List(l) : l \in UNION {[1..n -> S] : n \in 0..MaxItems}}

\* The payloads: leaves, lists of leaves, lists that hold lists, and the
\* same as the value of an object key.
NestedPayloads ==
  LET lists == ListsOf(Leaves \cup ListsOf(Leaves))
  IN Leaves \cup lists \cup {Dict(<<Pair("key", l)>>) : l \in lists}

\* A conversion that wraps the top-level list alone.
_incompatible_lists_to_dict_shallow(data) ==
  IF data.t = "list" THEN Dict(<<Pair("items", data)>>) ELSE data

RECURSIVE _incompatible_lists_to_dict(_)
\* _incompatible_lists_to_dict: a list becomes an object with the list of
\* its converted elements as items; the values of an object are converted,
\* a value that is a list staying a list of converted elements.
_incompatible_lists_to_dict(data) ==
  LET Each(l) == [i \in 1..Len(l) |-> _incompatible_lists_to_dict(l[i])]
  IN CASE data.t = "list" -> Dict(<<Pair("items", List(Each(data.items)))>>)
       [] data.t = "dict" ->
            Dict([i \in 1..Len(data.items) |->
                    Pair(data.items[i].k,
                         IF data.items[i].v.t = "list"
                           THEN List(Each(data.items[i].v.items))
                           ELSE _incompatible_lists_to_dict(data.items[i].v))])
       [] OTHER -> data

ConvertInit ==
  /\ EngineIdle
  /\ header_sources = NoSources
  /\ prepared = NotPrepared
  /\ body_template = NoBody
  /\ it_num = 0
  /\ sent_bodies = <<>>
  /\ payload \in NestedPayloads
  /\ response_type = None
  /\ response = NotDecoded
  /\ call_url = NoUrl
  /\ endpoint_query = NoDict
  /\ merges = 0

\* The payload of a response is converted before it is decoded.
Convert ==
  /\ response = NotDecoded
  /\ response' = _incompatible_lists_to_dict(payload)
  /\ UNCHANGED <<engineVars, headerVars, bodyVars, payload, response_type,
                 queryVars>>

ConvertSpec == ConvertInit /\ [][Convert]_vars

\* Number of times the query of one call is merged into its URL.
MaxMerges == 2

\* The URLs of calls, with all the parts HttpUrl.__init__ stores: the
\* initial one, and those a pagination function returned.
CallUrls ==
  [scheme : {"http", "https"}, netloc : {"mybaseurl.foo"}, path : {"/path"},
   query : [QueryKeys -> {None, "c1", "5"}], fragment : {"", "top"}]

\* The query mappings of endpoints: None, or a dictionary of literal values
\* and a callable giving 20.
EndpointQueries ==
  {NoDict} \cup
  {SomeDict(d) :
     d \in UNION {[K -> {PyInt(10), PyStr("c9"), PyFn("20")}] :
                    K \in SUBSET QueryKeys}}

QueryInit ==
  /\ EngineIdle
  /\ header_sources = NoSources
  /\ prepared = NotPrepared
  /\ body_template = NoBody
  /\ it_num = 0
  /\ sent_bodies = <<>>
  /\ payload = NoBody
  /\ response_type = None
  /\ response = NotDecoded
  /\ call_url \in CallUrls
  /\ endpoint_query \in EndpointQueries
  /\ merges = 0

\* _call, line 525: the endpoint's query is merged into the call's URL.
Merge ==
  /\ merges < MaxMerges
  /\ call_url' = add_to_query(call_url, endpoint_query)
  /\ merges' = merges + 1
  /\ UNCHANGED <<engineVars, headerVars, bodyVars, decodeVars, endpoint_query>>

QuerySpec == QueryInit /\ [][Merge]_vars

(***************************************************************************)
(* Properties.                                                             *)
(***************************************************************************)
Ids(S) == {c.id : c \in S}

PoolCalls == {pool[i] : i \in 1..Len(pool)}

RunningCalls == {w.call : w \in running}

\* The calls not yet finished that some part of the engine still holds.
HeldCalls ==
  _call_queue \cup ({waiting, next} \ {NoCall}) \cup PoolCalls \cup RunningCalls

ProducerStopped == pc = "done"

RunEnded == runState \in {"returned", "raised"}

\* C1: when the producer stops, or the run has ended, with the cancellation
\* signal not set, the queue is empty, the producer holds no call and no call
\* is executing or submitted.
C1_StopsOnlyWhenDrained ==
  ((ProducerStopped \/ RunEnded) /\ ~cancelation_token) =>
     /\ _call_queue = {}
     /\ waiting = NoCall /\ next = NoCall
     /\ n_executing = 0
     /\ pool = <<>> /\ running = {}

\* A run with follow-ups has returned without cancellation.
C1_Witness ==
  /\ runState = "returned" /\ ~cancelation_token
  /\ Len(requests["pages"]) = ChainLen

\* Number of requests of an endpoint that went to its initial URL.
InitialRequests(ep) ==
  Cardinality({i \in 1..Len(requests[ep]) : requests[ep][i].query["cursor"] = None})

\* C2: when the producer stops, or the run has ended, without cancellation,
\* the initial call of every endpoint a handler registered has been executed,
\* and no call descending from such a registration is pending or in flight.
C2_DynamicAdmission ==
  ((ProducerStopped \/ RunEnded) /\ ~cancelation_token) =>
     /\ \A ep \in EndpointNames : InitialRequests(ep) >= registered[ep]
     /\ \A c \in HeldCalls : ~c.dyn

\* A handler registered an endpoint twice and the run returned after the
\* registered calls and their follow-ups.
C2_Witness ==
  /\ runState = "returned" /\ ~cancelation_token
  /\ registered["child"] = 2
  /\ Len(requests["child"]) = 4

\* C3: while the cancellation signal is not set, every call pushed so far is
\* in the queue, held by the producer, submitted, executing or finished.
C3_NoCallLost ==
  ~cancelation_token => (1..pushed) \subseteq (Ids(HeldCalls) \cup finished)

\* C4: the producer submits a call only when the clock is at or past the
\* call's call_when.
C4_NeverBeforeCallWhen ==
  [][(pc = "submit" /\ pc' = "loop") => next.call_when <= now]_vars

\* C5: a run in which an endpoint with an interval was called has ended only
\* if the cancellation signal is set.
C5_IntervalRunsUntilCancelled ==
  (RunEnded /\ \E ep \in EndpointNames :
                 Endpoints[ep].interval # PyNone /\ requests[ep] # <<>>)
    => cancelation_token

\* C6: no step taken while the cancellation signal is set increments the
\* in-flight counter.
C6_NoDispatchAfterCancel ==
  [][cancelation_token => n_executing' <= n_executing]_vars

\* C7: every timed wait of the producer ends within _min_check_interval.
C7_WaitBoundedByPoll ==
  pc \in {"get", "cwait"} => deadline - now <= _min_check_interval

\* C8: once the cancellation signal is set, the run eventually ends.
C8_CancelEndsRun == cancelation_token ~> RunEnded

\* The run has ended after a cancellation that left a not-yet-due call behind.
C8_Witness ==
  /\ RunEnded /\ cancelation_token
  /\ \E c \in _call_queue \cup {waiting} : c.call_when > now

\* C9: at most request_parallelism calls are in their network step, or
\* executing at all, at the same time.
C9_ParallelismBound ==
  /\ Cardinality({w \in running : w.pc = "request"}) <= request_parallelism
  /\ Cardinality(running) <= request_parallelism

\* The pool is full, every thread in its network step, and a further
\* submitted call waits in the pool.
C9_Witness ==
  /\ Cardinality({w \in running : w.pc = "request"}) = request_parallelism
  /\ pool # <<>>

\* The URL of the i-th request of the paginated endpoint: the endpoint's own
\* query, and the cursor the (i-1)-th response carried.
ExpectedPage(i) ==
  [path |-> "pages",
   query |-> [k \in QueryKeys |->
                IF k = "limit" THEN "10"
                ELSE IF i = 1 THEN None ELSE Cursors[i - 1]]]

\* C10: the requests of the paginated endpoint follow the chain in order at
\* all times, and when the producer has stopped without cancellation there
\* were exactly ChainLen of them, with as many handler and
\* pagination-function calls.
C10_Pagination ==
  /\ \A i \in 1..Len(requests["pages"]) :
       i <= ChainLen /\ requests["pages"][i] = ExpectedPage(i)
  /\ (requests["pages"] # <<>> /\ (ProducerStopped \/ RunEnded)
      /\ ~cancelation_token) =>
        /\ Len(requests["pages"]) = ChainLen
        /\ handler_calls["pages"] = ChainLen
        /\ next_page_calls["pages"] = ChainLen

\* The chain was followed to its end and the run returned.
C10_Witness ==
  /\ runState = "returned" /\ ~cancelation_token
  /\ Len(requests["pages"]) = ChainLen
  /\ next_page_calls["pages"] = ChainLen
  /\ finished = 1..ChainLen

\* Number of registrations of an endpoint before the run.
Count(eps, ep) == Cardinality({i \in 1..Len(eps) : eps[i] = ep})

\* The pagination chains of an endpoint: one per registration.
Chains(ep) == Count(scenario, ep) + registered[ep]

\* The calls that are pending, or executing with the pagination decision
\* still to be made.
ActiveCalls ==
  _call_queue \cup PoolCalls
    \cup (IF pc \in {"while", "empty", "towait", "get", "cwait"}
            THEN {waiting} \ {NoCall}
            ELSE IF pc = "submit" THEN {next} ELSE {})
    \cup {w.call : w \in {v \in running : v.pc # "finish"}}

\* C11: of every endpoint, at most one call per pagination chain is pending
\* or executing at any time, and a call for page i of a chain exists only
\* after the handler and the pagination function ran for i - 1 responses.
C11_ChainSequential ==
  \A ep \in EndpointNames :
    /\ Cardinality(Ids({c \in ActiveCalls : c.ep = ep})) <= Chains(ep)
    /\ \A c \in ActiveCalls :
         c.ep = ep => /\ handler_calls[ep] >= PageOf(c.url) - 1
                      /\ next_page_calls[ep] >= PageOf(c.url) - 1

\* The second page of the chain is in its network step while the worker of
\* the first page has not yet decremented the in-flight counter.
C11_Witness ==
  \E v, w \in running :
    /\ v.call.ep = "pages" /\ w.call.ep = "pages"
    /\ v.pc = "finish" /\ PageOf(v.call.url) = 1
    /\ w.pc = "request" /\ PageOf(w.call.url) = 2

\* The positions in the list of recorded failures that name an endpoint.
ErrorsOf(ep) == {i \in 1..Len(errors) : errors[i].ep = ep}

\* C12: a call whose first attempts get an HTTP error and a later one, within
\* the tries, a 200 is completed: without cancellation no failure is recorded
\* for it, its handler runs once per call and only after the successful
\* attempt, and the run returns with every page requested.
C12_RetrySuccess ==
  LET n == Endpoints["flaky"].flaky + 1
      k == Endpoints["flaky"].pages
  IN /\ handler_calls["flaky"] * n <= Len(requests["flaky"])
     /\ handler_calls["flaky"] <= k * Count(scenario, "flaky")
     /\ ~cancelation_token => ErrorsOf("flaky") = {}
     /\ (RunEnded /\ ~cancelation_token /\ Count(scenario, "flaky") = 1) =>
          /\ runState = "returned"
          /\ Len(requests["flaky"]) = k * n
          /\ handler_calls["flaky"] = k
          /\ next_page_calls["flaky"] = k

\* Both calls of the flaky chain needed three attempts and the run returned.
C12_Witness ==
  /\ runState = "returned" /\ ~cancelation_token
  /\ Len(requests["flaky"]) = 2 * (Endpoints["flaky"].flaky + 1)
  /\ handler_calls["flaky"] = 2
  /\ errors = <<>>

\* C13: a call whose every attempt gets an HTTP error makes at most
\* retries_number attempts, its handler and pagination function never run,
\* the HTTP error is recorded once and only after the last attempt, and a
\* run that ends without cancellation made exactly retries_number attempts
\* and raises.
C13_RetryExhaustion ==
  /\ Len(requests["bad"]) <= retries_number * Count(scenario, "bad")
  /\ handler_calls["bad"] = 0 /\ next_page_calls["bad"] = 0
  /\ Cardinality(ErrorsOf("bad")) <= Count(scenario, "bad")
  /\ \A i \in ErrorsOf("bad") :
       errors[i].error = "HTTPError" => Len(requests["bad"]) = retries_number
  /\ (RunEnded /\ ~cancelation_token /\ Count(scenario, "bad") = 1) =>
       /\ runState = "raised"
       /\ Len(requests["bad"]) = retries_number
       /\ \E i \in 1..Len(errors) :
            ErrorsOf("bad") = {i} /\ errors[i].error = "HTTPError"

\* The run raised after the fifth failed attempt, without cancellation.
C13_Witness ==
  /\ runState = "raised" /\ ~cancelation_token
  /\ Len(requests["bad"]) = retries_number
  /\ Cardinality(ErrorsOf("bad")) = 1

\* C14: a call whose response does not decode, or whose handler raises,
\* makes one HTTP attempt and no more, is recorded as one failure, and has no
\* follow-up; the handler of the undecodable response is not invoked.
C14_OtherFailuresNotRetried ==
  /\ handler_calls["garbled"] = 0
  /\ \A ep \in {"garbled", "crash"} :
       /\ Len(requests[ep]) <= Count(scenario, ep)
       /\ handler_calls[ep] <= Count(scenario, ep)
       /\ Cardinality(ErrorsOf(ep)) <= Count(scenario, ep)
       /\ next_page_calls[ep] = 0
       /\ (RunEnded /\ ~cancelation_token /\ Count(scenario, ep) = 1) =>
            /\ Len(requests[ep]) = 1
            /\ \E i \in 1..Len(errors) :
                 /\ ErrorsOf(ep) = {i}
                 /\ errors[i].error = IF ep = "garbled" THEN "JSONDecodeError"
                                                        ELSE "ValueError"

\* The run raised after one attempt each of the call that does not decode
\* and of the call whose handler raises.
C14_Witness ==
  /\ runState = "raised" /\ ~cancelation_token
  /\ Len(requests["garbled"]) = 1 /\ Len(requests["crash"]) = 1
  /\ handler_calls["crash"] = 1
  /\ Len(errors) = 2

\* The endpoints whose calls fail.
FailingEndpoints ==
  {ep \in EndpointNames : Endpoints[ep].fails \/ Endpoints[ep].breaks # None}

\* C15: without cancellation a failure is recorded under the endpoint of the
\* failed call, the producer stops only when the queue is empty and nothing
\* is executing, and a run with failures has ended only after every call put
\* on the queue, before or after a failure, was executed; the endpoint that
\* does not fail got all its requests and handler calls.
C15_FailureDoesNotStopRun ==
  ~cancelation_token =>
    /\ \A i \in 1..Len(errors) : errors[i].ep \in FailingEndpoints
    /\ (ProducerStopped /\ errors # <<>>) =>
         _call_queue = {} /\ n_executing = 0 /\ pool = <<>>
    /\ (RunEnded /\ errors # <<>>) =>
         /\ finished = 1..pushed
         /\ Len(requests["once"]) = Count(scenario, "once") + registered["once"]
         /\ handler_calls["once"] = Count(scenario, "once") + registered["once"]

\* Two calls failed, and the call the failing handler had registered was
\* executed before the run raised.
C15_Witness ==
  /\ runState = "raised" /\ ~cancelation_token
  /\ Len(errors) = 2
  /\ registered["once"] = 1 /\ handler_calls["once"] = 1
  /\ finished = 1..3

\* C16: run() has raised exactly when it ended with recorded failures, and
\* returned exactly when it ended with none; it ends only after the producer
\* stopped and every submitted call finished; what it raised names, for
\* every recorded failure, the endpoint and the error; and once raised,
\* nothing is raised again.
C16_AggregateFailure ==
  /\ [](/\ runState = "raised" => errors # <<>>
        /\ runState = "returned" => errors = <<>> /\ run_error = <<>>
        /\ RunEnded => /\ pc = "done"
                       /\ pool = <<>> /\ running = {}
                       /\ n_executing = 0
        /\ ~RunEnded => run_error = <<>>
        /\ runState = "raised" =>
             /\ Len(run_error) = Len(errors)
             /\ \A i \in 1..Len(errors) :
                  run_error[i] = "Error in endpoint '" \o errors[i].ep
                                   \o "': " \o errors[i].error)
  /\ [][runState = "raised" => UNCHANGED <<runState, run_error, errors>>]_vars

\* run() raised naming two failed calls.
C16_Witness ==
  /\ runState = "raised"
  /\ Len(errors) = 2 /\ Len(run_error) = 2
  /\ errors[1].ep # errors[2].ep

\* No endpoint registered before the run has an interval.
NoIntervals ==
  \A i \in 1..Len(scenario) : Endpoints[scenario[i]].interval = PyNone

\* C18: a run without interval endpoints that is entered, with a valid
\* configuration, eventually ends, whether or not it is cancelled; when it has
\* ended without cancellation every call put on the queue was executed, and
\* a single endpoint without pagination was requested exactly once.
C18_RunToCompletion ==
  /\ (runState = "entered" /\ NoIntervals) ~> RunEnded
  /\ []((RunEnded /\ NoIntervals /\ ~cancelation_token) =>
          /\ finished = 1..pushed
          /\ _call_queue = {}
          /\ scenario = <<"once">> =>
               /\ requests["once"] = <<HttpUrl("once")>>
               /\ handler_calls["once"] = 1)

\* The run of the single endpoint returned, uncancelled, after one request.
C18_Witness ==
  /\ scenario = <<"once">>
  /\ runState = "returned" /\ ~cancelation_token
  /\ Len(requests["once"]) = 1

\* What a header value is once resolved: a callable by what it returns.
Returned(item) == IF item.t = "fn" THEN PyStr(item.s) ELSE item

\* The sources that define a header key, and the value the one of highest
\* priority gives it: the automatic Content-Type, the auth header, the
\* configuration, the endpoint, the extractor.
Defined(src, k) ==
  \/ k = "Content-Type" /\ src.body
  \/ k = "Authorization" /\ src.auth
  \/ k \in DOMAIN src.config.d
  \/ k \in DOMAIN src.endpoint
  \/ k \in DOMAIN src.headers

ExpectedHeader(src, k) ==
  CASE k = "Content-Type" /\ src.body -> PyStr("application/json")
    [] k = "Authorization" /\ src.auth -> auth_header
    [] k \in DOMAIN src.config.d -> src.config.d[k]
    [] k \in DOMAIN src.endpoint -> Returned(src.endpoint[k])
    [] OTHER -> Returned(src.headers[k])

\* C19: the prepared headers have exactly the keys some source defines,
\* each with the value of the source of highest priority that defines it;
\* with auth configured Authorization is the auth header whatever the other
\* sources say, and with a body Content-Type is application/json, while
\* without one it is what the sources say, or absent.
C19_HeaderPriority ==
  prepared.done =>
    /\ DOMAIN prepared.d = {k \in HeaderKeys : Defined(header_sources, k)}
    /\ \A k \in DOMAIN prepared.d :
         prepared.d[k] = ExpectedHeader(header_sources, k)
    /\ header_sources.auth => prepared.d["Authorization"] = auth_header
    /\ header_sources.body =>
         prepared.d["Content-Type"] = PyStr("application/json")
    /\ (~header_sources.body /\ "Content-Type" \in DOMAIN prepared.d) =>
         prepared.d["Content-Type"] # PyStr("application/json")

\* Every source defines every key, auth is configured and the endpoint has
\* a body: the two forced values won, and for Accept the configuration won
\* over the endpoint and the extractor.
C19_Witness ==
  /\ prepared.done
  /\ header_sources.auth /\ header_sources.body
  /\ header_sources.headers = [k \in HeaderKeys |-> PyFn("global-fn")]
  /\ header_sources.endpoint = [k \in HeaderKeys |-> PyStr("endpoint")]
  /\ header_sources.config = SomeDict([k \in HeaderKeys |-> PyStr("config")])
  /\ prepared.d["Accept"] = PyStr("config")
  /\ prepared.d["Authorization"] = auth_header

RECURSIVE Producers(_)
RECURSIVE ProducersIn(_)
\* Number of places of a template that hold the counter.
ProducersIn(items) ==
  IF items = <<>> THEN 0 ELSE Producers(Head(items)) + ProducersIn(Tail(items))

Producers(t) ==
  CASE t.t = "it" -> 1
    [] t.t = "fn" -> Producers(t.ret)
    [] t.t = "list" -> ProducersIn(t.items)
    [] t.t = "dict" -> ProducersIn([i \in 1..Len(t.items) |-> t.items[i].v])
    [] OTHER -> 0

RECURSIVE Numbers(_)
RECURSIVE NumbersIn(_)
\* The numbers of a resolved body, in the order of its places.
NumbersIn(items) ==
  IF items = <<>> THEN <<>> ELSE Numbers(Head(items)) \o NumbersIn(Tail(items))

Numbers(v) ==
  CASE v.t = "lit" -> IF v.v.t = "int" THEN <<v.v.i>> ELSE <<>>
    [] v.t = "list" -> NumbersIn(v.items)
    [] v.t = "dict" -> NumbersIn([i \in 1..Len(v.items) |-> v.items[i].v])
    [] OTHER -> <<>>

\* C20: the body of every request sent, a call's first attempt or a retry,
\* holds one number for every place of the counter in the template, all of
\* them larger than every number of the body sent before and increasing
\* from place to place, so no request repeats a value; the template of
\* test_callable_class renders 1..4 at first and 5..8 next.
C20_BodyReResolved ==
  \A i \in 1..Len(sent_bodies) :
    LET nums == Numbers(sent_bodies[i].val)
    IN /\ Len(nums) = Producers(body_template)
       /\ \A j \in 1..Len(nums) :
            nums[j] = (i - 1) * Producers(body_template) + j
       /\ i > 1 =>
            \A a \in 1..Len(Numbers(sent_bodies[i - 1].val)) :
              \A b \in 1..Len(nums) :
                Numbers(sent_bodies[i - 1].val)[a] < nums[b]
       /\ body_template = Dict(<<Pair("key", Fn(List(<<It, It, It, It>>)))>>)
            => /\ i = 1 => sent_bodies[i].data = "{\"key\": [1, 2, 3, 4]}"
               /\ i = 2 => sent_bodies[i].data = "{\"key\": [5, 6, 7, 8]}"

\* The template of test_callable_class was sent for a call and then for a
\* retry, which carried the next four numbers.
C20_Witness ==
  /\ body_template = Dict(<<Pair("key", Fn(List(<<It, It, It, It>>)))>>)
  /\ Len(sent_bodies) >= 2
  /\ sent_bodies[2].retry
  /\ sent_bodies[2].data = "{\"key\": [5, 6, 7, 8]}"

\* C17: with a configured parallelism of 0 or less the run context is never
\* entered: run() does not start, no call is dispatched to the pool, no
\* request is sent and no call finishes.
C17_BadParallelismFailsFast ==
  parallelism <= 0 =>
    /\ runState \in {"init", "config_error"}
    /\ pc = "idle"
    /\ n_executing = 0 /\ pool = <<>> /\ running = {}
    /\ finished = {}
    /\ \A ep \in EndpointNames : requests[ep] = <<>> /\ handler_calls[ep] = 0

\* __enter__ raised on a parallelism of 0 after it had queued the initial
\* calls, which stay undispatched.
C17_Witness ==
  /\ runState = "config_error"
  /\ parallelism = 0
  /\ _call_queue # {} /\ pushed > 0

\* C21: a payload that is a list L is decoded as the object {"items": L}
\* is, so a list of well-formed elements becomes a ResponseTypeList with one
\* item per element, in order; a payload that is an object is decoded as it
\* is.
C21_ListDecodedAsItems ==
  response # NotDecoded =>
    /\ payload.t = "list" =>
          /\ response =
               from_dict(response_type, Dict(<<Pair("items", payload)>>))
          /\ (response_type = "ResponseTypeList"
                /\ \A i \in 1..Len(payload.items) :
                     from_dict("MyResponseType", payload.items[i]) # DaciteError)
               => /\ response.t = "ResponseTypeList"
                  /\ Len(response.items) = Len(payload.items)
                  /\ \A i \in 1..Len(payload.items) :
                       response.items[i] =
                         from_dict("MyResponseType", payload.items[i])
    /\ payload.t # "list" => response = from_dict(response_type, payload)

\* The list of test_get_list has been decoded into its two items.
C21_Witness ==
  /\ payload.t = "list" /\ Len(payload.items) = MaxItems
  /\ response.t = "ResponseTypeList" /\ Len(response.items) = MaxItems
  /\ response.items[1].it = 1 /\ response.items[2].it = 2

\* C22: once the query of a call has been merged, every key of the
\* endpoint's query carries the text of the value itself when that is a
\* literal, and of the value the producer returns when it is a producer.
C22_QueryProducerCalled ==
  merges > 0 =>
    \A k \in DOMAIN endpoint_query.d :
      call_url.query[k] = str(_get_or_call(endpoint_query.d[k]))

\* C23: once __enter__ has run, the provider was constructed exactly when
\* the auth configuration is absent or names one scheme, basic or oauth;
\* with no scheme or with both __enter__ raised the configuration error, and
\* then no call was queued, run() does not start and no request is sent;
\* a provider made without a configuration is not configured, one made
\* with a scheme is.
C23_AuthConfigValidated ==
  LET one == /\ ~auth_config.isNone
             /\ (auth_config.basic /\ ~auth_config.oauth)
                  \/ (~auth_config.basic /\ auth_config.oauth)
  IN /\ runState # "init" => (authentication.made <=> (auth_config.isNone \/ one))
     /\ (~auth_config.isNone /\ ~one) =>
          /\ runState \in {"init", "config_error"}
          /\ pc = "idle" /\ _call_queue = {} /\ pushed = 0
          /\ pool = <<>> /\ running = {} /\ finished = {}
          /\ \A ep \in EndpointNames : requests[ep] = <<>>
     /\ (runState = "config_error" /\ parallelism > 0) => (~auth_config.isNone /\ ~one)
     /\ authentication.made =>
          /\ authentication.config = auth_config
          /\ is_configured(authentication) <=> one

\* __enter__ raised on a configuration with both schemes.
C23_Witness ==
  /\ runState = "config_error"
  /\ auth_config = AuthConfig(TRUE, TRUE)
  /\ parallelism > 0
  /\ ~authentication.made

\* A run with basic authentication alone has made its request and returned.
C23_WitnessValid ==
  /\ runState = "returned"
  /\ auth_config = AuthConfig(TRUE, FALSE)
  /\ is_configured(authentication)
  /\ Len(requests["once"]) = 1

\* C24: a call whose handler's output is of an unknown kind makes one HTTP
\* attempt, routes nothing, is recorded as one failure and has no follow-up;
\* without cancellation the run then still requests the other endpoint,
\* runs its handler and routes its output before it raises.
C24_UnknownOutputFailsOneCall ==
  /\ Len(requests["odd"]) <= Count(scenario, "odd")
  /\ Cardinality(ErrorsOf("odd")) <= Count(scenario, "odd")
  /\ routed["odd"] = 0 /\ next_page_calls["odd"] = 0
  /\ (RunEnded /\ ~cancelation_token /\ scenario = <<"odd", "once">>) =>
       /\ runState = "raised"
       /\ Len(requests["odd"]) = 1 /\ handler_calls["odd"] = 1
       /\ Len(errors) = 1
       /\ errors[1] = [ep |-> "odd", error |-> "ValueError"]
       /\ Len(requests["once"]) = 1
       /\ handler_calls["once"] = 1
       /\ routed["once"] = 1

\* The run raised on the unknown output with the sibling's output routed.
C24_Witness ==
  /\ runState = "raised" /\ ~cancelation_token
  /\ scenario = <<"odd", "once">>
  /\ errors # <<>> /\ routed["once"] = 1

\* C25: before the run context is entered nothing is on the live queue, no
\* call has been created and nothing is dispatched, and a registration
\* appends one endpoint to the initial list and changes nothing else.
C25_AdmittingOnlyCollects ==
  /\ [](runState = "init" =>
          /\ ~_initial_endpoints.isNone
          /\ _call_queue = {} /\ pushed = 0
          /\ waiting = NoCall /\ next = NoCall
          /\ n_executing = 0 /\ pool = <<>> /\ running = {})
  /\ [][(runState = "init" /\ runState' = "init") =>
          /\ \E ep \in EndpointNames :
               _initial_endpoints' =
                 SomeList(Append(_initial_endpoints.items, ep))
          /\ UNCHANGED <<_call_queue, pushed, prodVars, n_executing, pool,
                         running, requests>>]_vars

\* Two endpoints have been registered and the run context is not entered.
C25_Witness ==
  /\ runState = "init"
  /\ Len(_initial_endpoints.items) = 2
  /\ _call_queue = {} /\ pushed = 0

\* C26: the step that enters the run context empties the initial list for
\* good and puts on the queue exactly one call per collected endpoint, for
\* that endpoint's initial URL and with call_when 0; from then on the
\* initial list stays None and every registration a handler makes adds one
\* call with call_when 0 for the registered endpoint to the queue in the
\* same step.
C26_EnterQueuesEveryEndpoint ==
  /\ [][(runState = "init" /\ runState' = "entered") =>
          /\ _initial_endpoints.items = scenario
          /\ _initial_endpoints'.isNone
          /\ pushed' = Len(scenario)
          /\ Cardinality(_call_queue') = Len(scenario)
          /\ \A i \in 1..Len(scenario) :
               \E c \in _call_queue' :
                 /\ c.id = i /\ c.ep = scenario[i] /\ c.call_when = 0
                 /\ c.url = [path |-> scenario[i], query |-> NoQuery]]_vars
  /\ [](runState \in {"entered", "running", "returned", "raised"}
          => _initial_endpoints.isNone)
  /\ [][registered' # registered =>
          \E ep \in EndpointNames :
            /\ registered' = [registered EXCEPT ![ep] = @ + 1]
            /\ UNCHANGED _initial_endpoints
            /\ pushed' = pushed + 1
            /\ \E c \in _call_queue' \ _call_queue :
                 /\ _call_queue' = _call_queue \cup {c}
                 /\ c.ep = ep /\ c.call_when = 0
                 /\ c.url = [path |-> ep, query |-> NoQuery]]_vars

\* The collected endpoint was queued on entering and its call dispatched;
\* its handler's first registration is on the queue while the handler is
\* still running.
C26_Witness ==
  /\ runState = "running" /\ scenario = <<"parent">>
  /\ _initial_endpoints.isNone
  /\ registered["child"] = 1
  /\ \E c \in _call_queue : c.ep = "child" /\ c.dyn /\ c.call_when = 0
  /\ \E w \in running : w.call.ep = "parent" /\ w.pc = "handler"

\* C27: when the pagination function of an endpoint is called after a call,
\* and the response carries a cursor so that the function returns a URL, the
\* queue gains exactly one call, for that endpoint and that URL, with
\* call_when 0 when the endpoint has no interval and the time of the step
\* plus the interval when it has one; when the function returns None, or
\* raises instead of returning, the queue stays as it is.
C27_FollowUpPushed ==
  [][\A ep \in EndpointNames :
       next_page_calls'[ep] # next_page_calls[ep] =>
         \E w \in running \ running' :
           /\ w.call.ep = ep /\ w.pc = "next_page"
           /\ next_page_calls'[ep] = next_page_calls[ep] + 1
           /\ IF ResponseCursor(ep, w.call.url) # None /\ ~NextPageRaises(ep)
                THEN \E c \in _call_queue' \ _call_queue :
                       /\ _call_queue' = _call_queue \cup {c}
                       /\ pushed' = pushed + 1
                       /\ c.ep = ep
                       /\ c.url.path = w.call.url.path
                       /\ c.url.query["cursor"] = ResponseCursor(ep, w.call.url)
                       /\ c.call_when =
                            IF Endpoints[ep].interval = PyNone
                              THEN 0
                              ELSE now + Endpoints[ep].interval.i
                ELSE UNCHANGED <<_call_queue, pushed>>]_vars

\* The follow-up of an interval endpoint is on the queue, due one interval
\* after it was pushed.
C27_Witness ==
  /\ next_page_calls["poll"] >= 1
  /\ \E c \in _call_queue :
       c.ep = "poll" /\ c.call_when = now + Interval /\ c.url.query["cursor"] = "c1"

ProducerCalls ==
  IF pc \in {"while", "empty", "towait", "get", "cwait"}
    THEN {waiting} \ {NoCall}
    ELSE IF pc = "submit" THEN {next} ELSE {}

\* C29: a call is in one place at a time (on the queue, with the producer,
\* submitted, executing or finished) and never comes back once finished, so
\* none is executed twice; the initial URL of an endpoint is requested at
\* most once per registration, before or during the run, and every
\* registration has put a call of its own on the queue; and without
\* cancellation the run of the handler that registers one endpoint twice
\* ends with two requests of that endpoint's initial URL, each followed
\* through its pages, and one request of the registering endpoint.
C29_OneCallPerRegistration ==
  /\ Cardinality(Ids(PoolCalls)) = Len(pool)
  /\ Cardinality(Ids(RunningCalls)) = Cardinality(running)
  /\ Ids(_call_queue) \cap Ids(ProducerCalls) = {}
  /\ (Ids(_call_queue) \cup Ids(ProducerCalls)) \cap Ids(PoolCalls) = {}
  /\ (Ids(_call_queue) \cup Ids(ProducerCalls) \cup Ids(PoolCalls))
       \cap Ids(RunningCalls) = {}
  /\ (Ids(_call_queue) \cup Ids(ProducerCalls) \cup Ids(PoolCalls)
       \cup Ids(RunningCalls)) \cap finished = {}
  /\ \A ep \in {"once", "child", "parent"} :
       InitialRequests(ep) <= Count(scenario, ep) + registered[ep]
  /\ _initial_endpoints.isNone =>
       pushed >= Len(scenario) + registered["child"] + registered["once"]
  /\ (RunEnded /\ ~cancelation_token /\ scenario = <<"parent">>) =>
       /\ registered["child"] = Len(Endpoints["parent"].registers)
       /\ InitialRequests("child") = registered["child"]
       /\ Len(requests["child"]) = 2 * registered["child"]
       /\ Len(requests["parent"]) = 1
       /\ handler_calls["parent"] = 1

\* Both calls of the endpoint registered twice are executing at once, each
\* with its initial URL requested.
C29_Witness ==
  /\ scenario = <<"parent">>
  /\ InitialRequests("child") = 2 /\ Len(requests["child"]) = 2
  /\ Len(requests["parent"]) = 1
  /\ \E v, w \in running :
       /\ v.call.id # w.call.id
       /\ v.call.ep = "child" /\ w.call.ep = "child"

\* The step of the producer that takes a call off the queue while it holds
\* a call that is due strictly later: the dequeued call becomes the held
\* one and the held one is on the queue again, as it was.
LookaheadSwap ==
  [][(pc = "get" /\ pc' # "get" /\ waiting # NoCall) =>
       \A c \in _call_queue \ _call_queue' :
         c.call_when < waiting.call_when =>
           /\ waiting' = c
           /\ _call_queue' = (_call_queue \ {c}) \cup {waiting}
           /\ pc' = "while"]_vars

\* The held call is handed over ahead of a queued call that is due strictly
\* earlier only once the held call is due itself.
HeldFirstOnlyWhenDue ==
  [][(pc # "submit" /\ pc' = "submit"
        /\ \E c \in _call_queue : c.call_when < next'.call_when)
      => next'.call_when <= now]_vars

\* The producer sleeps, not looking at the queue, until the held call is
\* due, while a call that is ready now is on the queue.
ReadyWaitsForHeld ==
  /\ pc = "cwait" /\ waiting # NoCall
  /\ now < waiting.call_when /\ deadline >= waiting.call_when
  /\ \E c \in _call_queue : c.call_when <= now

\* C30 as stated: the swap, the earlier call going first, and no state in
\* which a call that is ready waits on the queue until the held call's due
\* time.
C30_ReadyNeverWaitsForHeld ==
  LookaheadSwap /\ HeldFirstOnlyWhenDue /\ [](~ReadyWaitsForHeld)

\* C30, amended: the swap, the earlier call going first, and a ready call on
\* the queue is passed over only while the producer sleeps after a dequeued
\* call that was not earlier than the held one, which lasts at most the poll
\* interval and never beyond the held call's due time.
C30_Lookahead ==
  /\ LookaheadSwap
  /\ HeldFirstOnlyWhenDue
  /\ [](pc = "cwait" =>
          /\ waiting # NoCall
          /\ deadline - now <= _min_check_interval
          /\ deadline <= waiting.call_when)

\* The producer holds the ready follow-up of the endpoint without interval
\* and the follow-up of an interval endpoint, not yet due, is on the queue.
C30_Witness ==
  /\ pc = "while" /\ waiting.ep = "child" /\ waiting.call_when = 0
  /\ PageOf(waiting.url) = 2
  /\ \E w \in _call_queue :
       w.ep = "poll" /\ w.call_when > now /\ w.id < waiting.id

C32_RetryWaitInterruptible ==
  /\ [](\A w \in running :
          (cancelation_token /\ w.pc = "backoff") => ENABLED WorkerBackoff(w))
  /\ [][\A w \in running :
          (cancelation_token /\ w.pc \in {"backoff", "request"}
             /\ w \notin running') =>
            /\ UNCHANGED <<requests, now, handler_calls, next_page_calls,
                           _call_queue>>
            /\ \E v \in running' :
                 /\ v.call = w.call /\ v.tries = w.tries
                 /\ v.pc = IF w.pc = "backoff" THEN "request" ELSE "finish"
                 /\ w.pc = "request" =>
                      errors' = Append(errors, [ep |-> w.call.ep,
                                                error |-> "AttributeError"])]_vars

\* The call was cancelled in the wait after its first failed attempt, before
\* the end of that wait, and has ended as a failed call after one attempt.
C32_Witness ==
  /\ cancelation_token
  /\ Len(requests["flaky"]) = 1
  /\ \E w \in running :
       /\ w.call.ep = "flaky" /\ w.pc = "finish"
       /\ w.tries = 1 /\ w.until > now
  /\ \E i \in 1..Len(errors) :
       errors[i] = [ep |-> "flaky", error |-> "AttributeError"]

\* C33: the output of a call is routed before the pagination function runs
\* for it; the count of routed outputs of an endpoint never goes down, and
\* stays as it is in the step that records a failure and in the step in
\* which run() raises; a run that ended with a failure has raised, and
\* without cancellation it raised with the output of the first page routed
\* when the second page or the pagination function failed, and with the
\* sibling's output routed when the other endpoint failed.
C33_PartialProgressRetained ==
  /\ [](\A ep \in EndpointNames : next_page_calls[ep] <= routed[ep])
  /\ [][\A ep \in EndpointNames : routed'[ep] >= routed[ep]]_vars
  /\ [][(errors' # errors \/ runState' # runState) => routed' = routed]_vars
  /\ []((RunEnded /\ errors # <<>>) => runState = "raised")
  /\ []((runState = "raised" /\ ~cancelation_token) =>
          /\ scenario = <<"later">> =>
               routed["later"] = 1 /\ handler_calls["later"] = 2
          /\ scenario = <<"torn">> =>
               routed["torn"] = 1 /\ next_page_calls["torn"] = 1
          /\ scenario \in {<<"once", "bad">>, <<"odd", "once">>} =>
               routed["once"] = 1)

\* The handler of the second page raised and run() raised, uncancelled,
\* with the output of the first page routed.
C33_Witness ==
  /\ runState = "raised" /\ ~cancelation_token
  /\ scenario = <<"later">>
  /\ routed["later"] = 1 /\ Len(requests["later"]) = 2
  /\ errors = <<[ep |-> "later", error |-> "ValueError"]>>

\* C34: the step that records the failure of a call puts no call of the
\* failed call's endpoint on the queue and leaves the worker at the end of
\* executor_call, past the pagination decision; once a call of an endpoint
\* with a single chain has failed, no call of that endpoint is pending or
\* executing, and no request of it is made again; so without cancellation
\* the interval endpoint whose second call fails was requested twice and
\* the endpoint whose pagination function raises once, when the run ends.
C34_FailedCallEndsChain ==
  /\ [][errors' # errors =>
          /\ Len(errors') = Len(errors) + 1
          /\ \A c \in _call_queue' \ _call_queue : c.ep # errors'[Len(errors')].ep
          /\ \E w \in running' \ running :
               w.pc = "finish" /\ w.call.ep = errors'[Len(errors')].ep]_vars
  /\ [](\A ep \in EndpointNames :
          (Chains(ep) = 1 /\ ErrorsOf(ep) # {}) =>
             \A c \in ActiveCalls : c.ep # ep)
  /\ [][\A ep \in EndpointNames :
          (Chains(ep) = 1 /\ ErrorsOf(ep) # {}) =>
             requests'[ep] = requests[ep]]_vars
  /\ []((RunEnded /\ ~cancelation_token) =>
          /\ scenario = <<"later">> =>
               /\ Len(requests["later"]) = 2
               /\ next_page_calls["later"] = 1
          /\ scenario = <<"torn">> =>
               /\ Len(requests["torn"]) = 1
               /\ next_page_calls["torn"] = 1)

\* The second call of the interval endpoint has failed; the run goes on,
\* uncancelled, with nothing of the endpoint on the queue.
C34_Witness ==
  /\ runState = "running" /\ ~cancelation_token
  /\ scenario = <<"later">>
  /\ ErrorsOf("later") # {} /\ Len(requests["later"]) = 2
  /\ _call_queue = {} /\ running = {}
  /\ Endpoints["later"].interval # PyNone

\* Every endpoint registered before the run is without a pagination
\* function and its handler registers nothing.
OnlyUnpaginated ==
  \A i \in 1..Len(scenario) :
    /\ ~Endpoints[scenario[i]].next_page
    /\ Endpoints[scenario[i]].registers = <<>>

C36_EndpointQueryWins ==
  /\ \A ep \in EndpointNames :
       \A k \in DOMAIN Endpoints[ep].query :
         /\ \A i \in 1..Len(requests[ep]) :
              requests[ep][i].query[k] = str(Endpoints[ep].query[k])
         /\ \A w \in running :
              w.call.ep = ep => w.call.url.query[k] = str(Endpoints[ep].query[k])
  /\ \A c \in _call_queue \cup PoolCalls :
       (c.ep = "pages" /\ PageOf(c.url) > 1) =>
          /\ c.url.query["limit"] = NextPageLimit
          /\ NextPageLimit # str(Endpoints["pages"].query["limit"])

\* The second page was requested with the endpoint's limit, and the
\* follow-up for the third page is on the queue with the limit the
\* pagination function gave it.
C36_Witness ==
  /\ Len(requests["pages"]) = 2
  /\ requests["pages"][2].query = [cursor |-> "c1", limit |-> "10"]
  /\ \E c \in _call_queue :
       c.ep = "pages" /\ c.url.query = [cursor |-> "c2", limit |-> "5"]

\* C37: a merge of an absent mapping leaves the URL as it is; a merge of a
\* mapping sets every key of the mapping to the text of the added value,
\* whatever the URL carried for the key, and leaves every other key, the
\* scheme, the host, the path and the fragment as they were; and a second
\* merge of the same mapping changes nothing.
C37_AddToQuery ==
  [][merges' = merges + 1 =>
       /\ endpoint_query.isNone => call_url' = call_url
       /\ ~endpoint_query.isNone =>
            /\ \A k \in DOMAIN endpoint_query.d :
                 call_url'.query[k] =
                   (CASE endpoint_query.d[k] = PyInt(10) -> "10"
                      [] endpoint_query.d[k] = PyStr("c9") -> "c9"
                      [] OTHER -> "<function>")
            /\ \A k \in QueryKeys \ DOMAIN endpoint_query.d :
                 call_url'.query[k] = call_url.query[k]
            /\ call_url'.scheme = call_url.scheme
            /\ call_url'.netloc = call_url.netloc
            /\ call_url'.path = call_url.path
            /\ call_url'.fragment = call_url.fragment
       /\ merges >= 1 => call_url' = call_url]_vars

\* The URL carried a cursor and a limit; the number 10 was merged in twice
\* as the limit, and the URL has the cursor it had and the limit "10".
C37_Witness ==
  /\ merges = 2
  /\ endpoint_query = SomeDict([limit |-> PyInt(10)])
  /\ call_url.query = [cursor |-> "c1", limit |-> "10"]
  /\ call_url.scheme = "https" /\ call_url.fragment = "top"

RECURSIVE HasProducer(_)
\* The template holds a producer somewhere.
HasProducer(t) ==
  CASE t.t \in {"it", "fn"} -> TRUE
    [] t.t = "list" -> \E i \in 1..Len(t.items) : HasProducer(t.items[i])
    [] t.t = "dict" -> \E i \in 1..Len(t.items) : HasProducer(t.items[i].v)
    [] OTHER -> FALSE

RECURSIVE ResolvesTo(_, _)
\* The value v is the template t with every producer replaced by what it
\* returned: a literal is itself, a mapping has the same keys in the same
\* order with resolved values, a sequence the same length with resolved
\* items, the counter gives a number, and a producer gives what it returns,
\* resolved in turn when that is a mapping or a sequence.
ResolvesTo(t, v) ==
  CASE t.t = "lit" -> v = t
    [] t.t = "it" -> v.t = "lit" /\ v.v.t = "int"
    [] t.t = "fn" ->
         IF t.ret.t \in {"list", "dict"} THEN ResolvesTo(t.ret, v)
                                         ELSE v = t.ret
    [] t.t = "list" ->
         /\ v.t = "list" /\ Len(v.items) = Len(t.items)
         /\ \A i \in 1..Len(t.items) : ResolvesTo(t.items[i], v.items[i])
    [] t.t = "dict" ->
         /\ v.t = "dict" /\ Len(v.items) = Len(t.items)
         /\ \A i \in 1..Len(t.items) :
              /\ v.items[i].k = t.items[i].k
              /\ ResolvesTo(t.items[i].v, v.items[i].v)
    [] OTHER -> FALSE

\* C38: the body of every request sent is the JSON text of the template with
\* every producer replaced by its result, at every depth and inside what a
\* producer returned, so that no producer is left in it; an absent body
\* gives no body; and a template without producers gives itself.
C38_BodyResolved ==
  \A i \in 1..Len(sent_bodies) :
    IF body_template = NoBody
      THEN sent_bodies[i].data = None /\ sent_bodies[i].val = NoBody
      ELSE /\ ResolvesTo(body_template, sent_bodies[i].val)
           /\ ~HasProducer(sent_bodies[i].val)
           /\ sent_bodies[i].data = json_dumps(sent_bodies[i].val)
           /\ sent_bodies[i].data # None
           /\ ~HasProducer(body_template) =>
                sent_bodies[i].val = body_template
           /\ body_template = Dict(<<Pair("key1", Fn(Lit(PyStr("val"))))>>) =>
                sent_bodies[i].data = "{\"key1\": \"val\"}"
           /\ body_template = Fn(Dict(<<>>)) => sent_bodies[i].data = "{}"

\* The template whose producer returns a mapping that holds a producer
\* has been sent, both producers replaced.
C38_Witness ==
  /\ body_template = Dict(<<Pair("key1", Fn(Dict(<<Pair("subkey", It)>>)))>>)
  /\ Len(sent_bodies) = 1
  /\ sent_bodies[1].data = "{\"key1\": {\"subkey\": 1}}"

RECURSIVE HasList(_)
\* The value holds a list somewhere.
HasList(v) ==
  CASE v.t = "list" -> TRUE
    [] v.t = "dict" -> \E i \in 1..Len(v.items) : HasList(v.items[i].v)
    [] OTHER -> FALSE

RECURSIVE ConvertsTo(_, _, _)
\* The value r is the conversion of v, where wrap says that v is the
\* top-level value or a direct element of a list, and not the direct value
\* of an object key.
ConvertsTo(v, r, wrap) ==
  CASE v.t = "list" /\ wrap ->
         /\ r.t = "dict" /\ Len(r.items) = 1 /\ r.items[1].k = "items"
         /\ r.items[1].v.t = "list"
         /\ Len(r.items[1].v.items) = Len(v.items)
         /\ \A i \in 1..Len(v.items) :
              ConvertsTo(v.items[i], r.items[1].v.items[i], TRUE)
    [] v.t = "list" /\ ~wrap ->
         /\ r.t = "list" /\ Len(r.items) = Len(v.items)
         /\ \A i \in 1..Len(v.items) :
              ConvertsTo(v.items[i], r.items[i], TRUE)
    [] v.t = "dict" ->
         /\ r.t = "dict" /\ Len(r.items) = Len(v.items)
         /\ \A i \in 1..Len(v.items) :
              /\ r.items[i].k = v.items[i].k
              /\ ConvertsTo(v.items[i].v, r.items[i].v, FALSE)
    [] OTHER -> r = v

=============================================================================
